---- MODULE Spec2Model ----
(***************************************************************************)
(* Homely Helper room planner (src/main.py): the room layout model.        *)
(*                                                                         *)
(* The state is the RoomPlanner window's fields, the graphics items it     *)
(* tracks (FurnitureItem, DoorItem), the item list widget, the modal       *)
(* door/window dialog and the layout file.  Python floats are modelled by  *)
(* exact rationals [n, d] in lowest terms, so that a product followed by   *)
(* the inverse division is the identity exactly where floating point is    *)
(* the identity up to rounding.                                            *)
(***************************************************************************)
EXTENDS Integers, Sequences, FiniteSets, TLC

VARIABLES
    pixels_per_m,           \* RoomPlanner.pixels_per_m
    room_name,              \* RoomPlanner.room_name
    room_width_m,           \* RoomPlanner.room_width_m
    room_depth_m,           \* RoomPlanner.room_depth_m
    current_floor_texture,  \* RoomPlanner.current_floor_texture
    show_room_border,       \* RoomPlanner.show_room_border (= border_checkbox)
    room_rect,              \* RoomPlanner._room_rect_item's rectangle (pixels)
    snap_to_borders,        \* RoomPlanner.snap_to_borders (= snap_checkbox)
    furniture_items,        \* RoomPlanner.furniture_items: Seq of FurnitureItem
    door_items,             \* RoomPlanner.door_items: Seq of DoorItem
    list_widget,            \* RoomPlanner.list_widget: Seq of list entries
    door_counter,           \* RoomPlanner.door_counter
    window_counter,         \* RoomPlanner.window_counter
    clipboard_furniture,    \* RoomPlanner.clipboard_furniture
    dialog,                 \* the open DoorWindowDialog (add_door / add_window)
    file,                   \* the layout file save_layout writes, load_layout reads
    message,                \* the QMessageBox the last command showed
    crashed,                \* the process was aborted
    used_numbers,           \* history: counter values used for created openings
    closed,                 \* the window was closed and the process has ended
    settings,               \* the QSettings store ("HomelyHelper", "RoomPlanner")
    room_form,              \* room_w_spin, room_w_unit, room_d_spin, room_d_unit,
                            \* RoomPlanner.current_room_unit
    conversion              \* the last direct call of a unit-conversion function

vars == << pixels_per_m, room_name, room_width_m, room_depth_m,
           current_floor_texture, show_room_border, room_rect, snap_to_borders,
           furniture_items, door_items, list_widget, door_counter,
           window_counter, clipboard_furniture, dialog, file, message,
           crashed, used_numbers, closed, settings, room_form, conversion >>

-----------------------------------------------------------------------------
(* Bounds of the model *)

MaxFurniture == 2
MaxDoors == 2
MaxCounter == 3
MaxNameLen == 13
MaxCoord == 12
MaxScaled == 1

-----------------------------------------------------------------------------
(* Exact rational arithmetic standing for Python float arithmetic *)

Abs(x) == IF x < 0 THEN -x ELSE x

RECURSIVE GCD(_, _)
GCD(a, b) == IF b = 0 THEN a ELSE GCD(b, a % b)

Rat(n, d) ==
    LET s == IF d < 0 THEN -1 ELSE 1
        g == GCD(Abs(n), Abs(d))
    IN  [n |-> (s * n) \div g, d |-> (s * d) \div g]

R(i) == [n |-> i, d |-> 1]

Zero == R(0)

\* Common factors are cancelled before multiplying, to keep the terms small
RMul(a, b) ==
    LET g == GCD(Abs(a.n), b.d)
        h == GCD(Abs(b.n), a.d)
    IN  Rat((a.n \div g) * (b.n \div h), (a.d \div h) * (b.d \div g))

RDiv(a, b) ==
    IF b.n = 0 THEN Rat(a.n * b.d, 0)
    ELSE RMul(a, Rat(b.d, b.n))

RAdd(a, b) == Rat(a.n * b.d + b.n * a.d, a.d * b.d)

RSub(a, b) == Rat(a.n * b.d - b.n * a.d, a.d * b.d)

RLe(a, b) == a.n * b.d <= b.n * a.d

RLt(a, b) == a.n * b.d < b.n * a.d

RMin(a, b) == IF RLe(a, b) THEN a ELSE b

RMax(a, b) == IF RLe(b, a) THEN a ELSE b

-----------------------------------------------------------------------------
(* Unit conversion *)

Units == {"m", "ft", "in"}

UNIT_FACTORS ==
    [u \in Units |-> CASE u = "m"  -> R(1)
                       [] u = "ft" -> Rat(3048, 10000)
                       [] u = "in" -> Rat(254, 10000)]

to_m(value, unit) == RMul(value, UNIT_FACTORS[unit])

from_m(value_m, unit) == RDiv(value_m, UNIT_FACTORS[unit])

\* QDoubleSpinBox.setValue on a dimension field: the value is rounded to the
\* box's two decimals and bounded by its range (1, 1000)
setValue(value) ==
    LET whole == value.n \div value.d
        rest == value.n % value.d
        hundredths == whole * 100 + (rest * 200 + value.d) \div (2 * value.d)
    IN  RMax(R(1), RMin(R(1000), Rat(hundredths, 100)))


-----------------------------------------------------------------------------
(* Python's float: IEEE 754 binary64, every operation rounded to the nearest
   representable number, ties to the even mantissa.  to_m and from_m above are
   the conversions over the reals; the definitions below compute the very
   numbers value * factor and value_m / factor produce.  A natural number of
   any size is the sequence of its digits in base Limb, least significant
   first and without leading zeros; a positive float is m * 2^e with a
   mantissa m of MantissaBits bits. *)

LimbBits == 15

Limb == 2 ^ LimbBits

MantissaBits == 53

BigOf(n) ==
    IF n = 0 THEN << >>
    ELSE IF n < Limb THEN << n >>
    ELSE IF n < Limb * Limb THEN << n % Limb, n \div Limb >>
    ELSE << n % Limb, (n \div Limb) % Limb, n \div (Limb * Limb) >>

RECURSIVE Trim(_)
Trim(x) ==
    IF x # << >> /\ x[Len(x)] = 0 THEN Trim(SubSeq(x, 1, Len(x) - 1)) ELSE x

Digit(x, i) == IF i <= Len(x) THEN x[i] ELSE 0

\* x * k + c for k and c below Limb
BigMulAdd(x, k, c) ==
    LET RECURSIVE MulAddFrom(_, _)
        MulAddFrom(carry, i) ==
            IF i > Len(x)
            THEN IF carry = 0 THEN << >> ELSE << carry >>
            ELSE LET t == x[i] * k + carry
                 IN  << t % Limb >> \o MulAddFrom(t \div Limb, i + 1)
    IN  Trim(MulAddFrom(c, 1))

BigAdd(x, y) ==
    LET RECURSIVE AddFrom(_, _)
        AddFrom(carry, i) ==
            IF i > Len(x) /\ i > Len(y)
            THEN IF carry = 0 THEN << >> ELSE << carry >>
            ELSE LET t == Digit(x, i) + Digit(y, i) + carry
                 IN  << t % Limb >> \o AddFrom(t \div Limb, i + 1)
    IN  AddFrom(0, 1)

\* x - y for x >= y
BigSub(x, y) ==
    LET RECURSIVE SubFrom(_, _)
        SubFrom(borrow, i) ==
            IF i > Len(x)
            THEN << >>
            ELSE LET t == x[i] - Digit(y, i) - borrow
                 IN  << t % Limb >> \o SubFrom(IF t < 0 THEN 1 ELSE 0, i + 1)
    IN  Trim(SubFrom(0, 1))

\* -1, 0 or 1 as x is below, equal to or above y
BigCmp(x, y) ==
    LET RECURSIVE CmpFrom(_)
        CmpFrom(i) ==
            IF i = 0 THEN 0
            ELSE IF x[i] < y[i] THEN -1
            ELSE IF x[i] > y[i] THEN 1
            ELSE CmpFrom(i - 1)
    IN  IF Len(x) < Len(y) THEN -1
        ELSE IF Len(x) > Len(y) THEN 1
        ELSE CmpFrom(Len(x))

BigMul(x, y) ==
    LET RECURSIVE MulFrom(_)
        MulFrom(i) ==
            IF i > Len(y)
            THEN << >>
            ELSE BigAdd(BigMulAdd(x, y[i], 0),
                        LET rest == MulFrom(i + 1)
                        IN  IF rest = << >> THEN << >> ELSE << 0 >> \o rest)
    IN  Trim(MulFrom(1))

BitLen(x) ==
    LET RECURSIVE SmallBitLen(_)
        SmallBitLen(n) == IF n = 0 THEN 0 ELSE 1 + SmallBitLen(n \div 2)
    IN  IF x = << >> THEN 0 ELSE LimbBits * (Len(x) - 1) + SmallBitLen(x[Len(x)])

\* Bit j of x, bit 0 the least significant
Bit(x, j) == (Digit(x, j \div LimbBits + 1) \div (2 ^ (j % LimbBits))) % 2

BigPow2(j) ==
    [i \in 1..(j \div LimbBits + 1) |->
        IF i = j \div LimbBits + 1 THEN 2 ^ (j % LimbBits) ELSE 0]

\* x divided by 2^t: the quotient hi and the remainder lo
BigSplit(x, t) ==
    LET k == t \div LimbBits
        b == t % LimbBits
    IN  IF Len(x) <= k
        THEN [hi |-> << >>, lo |-> x]
        ELSE [hi |-> Trim([i \in 1..(Len(x) - k) |->
                              (x[i + k] \div (2 ^ b))
                                  + (Digit(x, i + k + 1) % (2 ^ b))
                                        * (2 ^ (LimbBits - b))]),
              lo |-> Trim([i \in 1..(k + 1) |->
                              IF i <= k THEN x[i] ELSE x[i] % (2 ^ b)])]

\* Quotient q and remainder r of x * 2^s divided by y, by long division: st
\* holds q and r for the bits above bit j, one step brings bit j down
BigDivMod(x, y, s) ==
    LET DivStep(st) ==
            LET r2 == BigMulAdd(st.r, 2, IF st.j >= s THEN Bit(x, st.j - s) ELSE 0)
            IN  IF BigCmp(r2, y) >= 0
                THEN [q |-> BigMulAdd(st.q, 2, 1), r |-> BigSub(r2, y),
                      j |-> st.j - 1]
                ELSE [q |-> BigMulAdd(st.q, 2, 0), r |-> r2, j |-> st.j - 1]
        RECURSIVE DivBits(_, _)
        DivBits(st, n) ==
            IF n = 0 \/ st.j < 0 THEN st ELSE DivBits(DivStep(st), n - 1)
        RECURSIVE DivLimbs(_)
        DivLimbs(st) ==
            IF st.j < 0 THEN st ELSE DivLimbs(DivBits(st, LimbBits))
    IN  DivLimbs([q |-> << >>, r |-> << >>, j |-> BitLen(x) + s - 1])

\* The float nearest to (q + r / y) * 2^e, for q of MantissaBits bits or more
\* and r below y
RoundToFloat(q, r, y, e) ==
    LET t == BitLen(q) - MantissaBits
        parts == BigSplit(q, t)
        cmp == IF t = 0
               THEN BigCmp(BigMulAdd(r, 2, 0), y)
               ELSE LET c == BigCmp(parts.lo, BigPow2(t - 1))
                    IN  IF c # 0 THEN c ELSE IF r = << >> THEN 0 ELSE 1
        up == cmp > 0 \/ (cmp = 0 /\ Bit(parts.hi, 0) = 1)
        m == IF up THEN BigMulAdd(parts.hi, 1, 1) ELSE parts.hi
    IN  IF BitLen(m) > MantissaBits
        THEN [m |-> BigPow2(MantissaBits - 1), e |-> e + t + 1]
        ELSE [m |-> m, e |-> e + t]

\* The float a decimal literal n / d denotes, n and d positive integers
Float(n, d) ==
    LET x == BigOf(n)
        y == BigOf(d)
        s == MantissaBits + 1 + BitLen(y) - BitLen(x)
        qr == BigDivMod(x, y, s)
    IN  RoundToFloat(qr.q, qr.r, y, -s)

\* a * b
float_mul(a, b) == RoundToFloat(BigMul(a.m, b.m), << >>, << 1 >>, a.e + b.e)

\* a / b
float_div(a, b) ==
    LET qr == BigDivMod(a.m, b.m, MantissaBits + 1)
    IN  RoundToFloat(qr.q, qr.r, b.m, a.e - b.e - (MantissaBits + 1))

\* The floats next above and next below a
Neighbours(a) ==
    LET m == BigMulAdd(a.m, 1, 1)
    IN  { IF BitLen(m) > MantissaBits
          THEN [m |-> BigPow2(MantissaBits - 1), e |-> a.e + 1]
          ELSE [m |-> m, e |-> a.e],
          IF a.m = BigPow2(MantissaBits - 1)
          THEN [m |-> BigSub(BigPow2(MantissaBits), << 1 >>), e |-> a.e - 1]
          ELSE [m |-> BigSub(a.m, << 1 >>), e |-> a.e] }

\* _UNIT_FACTORS as the floats its literals denote
FLOAT_UNIT_FACTORS ==
    [u \in Units |-> CASE u = "m"  -> Float(1, 1)
                       [] u = "ft" -> Float(3048, 10000)
                       [] u = "in" -> Float(254, 10000)]

\* The exception a dictionary lookup with an unknown key raises
KeyError == [error |-> "KeyError"]

\* A to_m that falls back to metres for a unit token it does not know
to_m_defaulting(value, unit) ==
    IF unit \in DOMAIN FLOAT_UNIT_FACTORS
    THEN float_mul(value, FLOAT_UNIT_FACTORS[unit])
    ELSE value

\* to_m on floats: value * _UNIT_FACTORS[unit]
to_m_float(value, unit) ==
    IF unit \in DOMAIN FLOAT_UNIT_FACTORS
    THEN float_mul(value, FLOAT_UNIT_FACTORS[unit])
    ELSE KeyError

\* A from_m that multiplies by the factor
from_m_multiplying(value_m, unit) ==
    IF unit \in DOMAIN FLOAT_UNIT_FACTORS
    THEN float_mul(value_m, FLOAT_UNIT_FACTORS[unit])
    ELSE KeyError

\* from_m on floats: value_m / _UNIT_FACTORS[unit]
from_m_float(value_m, unit) ==
    IF unit \in DOMAIN FLOAT_UNIT_FACTORS
    THEN float_div(value_m, FLOAT_UNIT_FACTORS[unit])
    ELSE KeyError

\* f"{a:.2f}": a in hundredths, rounded to the nearest integer, ties to even
TwoDecimals(a) ==
    LET x == BigMulAdd(a.m, 100, 0)
    IN  IF a.e >= 0
        THEN BigMul(x, BigPow2(a.e))
        ELSE LET parts == BigSplit(x, -a.e)
                 cmp == BigCmp(BigMulAdd(parts.lo, 2, 0), BigPow2(-a.e))
             IN  IF cmp > 0 \/ (cmp = 0 /\ Bit(parts.hi, 0) = 1)
                 THEN BigMulAdd(parts.hi, 1, 1)
                 ELSE parts.hi

\* format_dimension: the text "<hundredths / 100> <unit>"
format_dimension(value_m, unit) ==
    LET converted == from_m_float(value_m, unit)
    IN  IF converted = KeyError
        THEN KeyError
        ELSE [hundredths |-> TwoDecimals(converted), unit |-> unit]

-----------------------------------------------------------------------------
(* Colours: a QColor is its RGB name and its alpha channel *)

OpaqueAlpha == 255

QColor(name) == [rgb |-> name, alpha |-> OpaqueAlpha]

ColourName(colour) == colour.rgb

TEXTURES == {"None", "Hardwood", "Carpet", "Tile", "Concrete"}

-----------------------------------------------------------------------------
(* Data-model classes and graphics items *)

Furniture(name, width_m, depth_m, colour, x_m, y_m, rotation) ==
    [name |-> name, width_m |-> width_m, depth_m |-> depth_m,
     colour |-> colour, x_m |-> x_m, y_m |-> y_m, rotation |-> rotation]

DoorWindow(name, width_m, thickness_m, is_door) ==
    [name |-> name, width_m |-> width_m, thickness_m |-> thickness_m,
     x_m |-> Zero, y_m |-> Zero, is_door |-> is_door]

Point(x, y) == [x |-> x, y |-> y]

Size(w, h) == [w |-> w, h |-> h]

\* An item whose rectangle is left in metres
FurnitureItemUnscaled(id, furn, scale) ==
    [id |-> id, furn |-> furn, scale |-> scale,
     rect |-> Size(furn.width_m, furn.depth_m),
     pos |-> Point(Zero, Zero)]

\* FurnitureItem.__init__: rect (0, 0, width_m * scale, depth_m * scale) at (0, 0)
FurnitureItem(id, furn, scale) ==
    [id |-> id, furn |-> furn, scale |-> scale,
     rect |-> Size(RMul(furn.width_m, R(scale)), RMul(furn.depth_m, R(scale))),
     pos |-> Point(Zero, Zero)]

\* DoorItem.__init__: rect (0, 0, width_m * scale, thickness_m * scale), closed
DoorItem(id, door_window, scale) ==
    [id |-> id, door_window |-> door_window, scale |-> scale,
     rect |-> Size(RMul(door_window.width_m, R(scale)),
                   RMul(door_window.thickness_m, R(scale))),
     pos |-> Point(Zero, Zero), is_open |-> FALSE]

\* A clamp that only keeps positions from going negative
ItemPositionChangeLowerOnly(item, value, snap, room_w, room_d) ==
    IF snap
    THEN Point(RMax(Zero, value.x), RMax(Zero, value.y))
    ELSE value

\* A clamp that applies the lower bound first and the upper bound last
ItemPositionChangeUpperLast(item, value, snap, room_w, room_d) ==
    IF snap
    THEN Point(RMin(RMax(Zero, value.x),
                    RSub(RMul(room_w, R(item.scale)), item.rect.w)),
               RMin(RMax(Zero, value.y),
                    RSub(RMul(room_d, R(item.scale)), item.rect.h)))
    ELSE value

\* A clamp that ignores the snap flag
ItemPositionChangeAlways(item, value, snap, room_w, room_d) ==
    Point(RMax(Zero, RMin(value.x, RSub(RMul(room_w, R(item.scale)), item.rect.w))),
          RMax(Zero, RMin(value.y, RSub(RMul(room_d, R(item.scale)), item.rect.h))))

\* FurnitureItem.itemChange, ItemPositionChange: the border clamp
ItemPositionChange(item, value, snap, room_w, room_d) ==
    IF snap
    THEN LET room_width_px == RMul(room_w, R(item.scale))
             room_height_px == RMul(room_d, R(item.scale))
             furniture_width == item.rect.w
             furniture_height == item.rect.h
         IN  Point(RMax(Zero, RMin(value.x, RSub(room_width_px, furniture_width))),
                   RMax(Zero, RMin(value.y, RSub(room_height_px, furniture_height))))
    ELSE value

\* FurnitureItem.itemChange, ItemPositionHasChanged: display -> model
ItemPositionHasChanged(item) ==
    [item EXCEPT !.furn.x_m = RDiv(item.pos.x, R(item.scale)),
                 !.furn.y_m = RDiv(item.pos.y, R(item.scale))]

\* QGraphicsItem.setPos on an item with ItemSendsGeometryChanges: nothing
\* happens when the position is the current one; otherwise itemChange may
\* replace the position, and ItemPositionHasChanged follows a real change.
setPos(item, value, snap, room_w, room_d) ==
    IF item.pos = value
    THEN item
    ELSE LET newPos == ItemPositionChange(item, value, snap, room_w, room_d)
         IN  IF newPos = item.pos
             THEN item
             ELSE ItemPositionHasChanged([item EXCEPT !.pos = newPos])

\* RoomPlanner.draw_room_border: the room's display rectangle
RoomRect(room_w, room_d, scale) ==
    Size(RMul(room_w, R(scale)), RMul(room_d, R(scale)))

-----------------------------------------------------------------------------
(* The item list (QListWidget): entries carry the data object they refer to *)

ListEntry(kind, ref, data) == [kind |-> kind, ref |-> ref, data |-> data]

RemoveAt(seq, k) == SubSeq(seq, 1, k - 1) \o SubSeq(seq, k + 1, Len(seq))

\* A list entry and a tracked item share one Furniture object: a write through
\* the item is seen through the entry.
SharedData(list, items) ==
    [k \in DOMAIN list |->
        IF list[k].kind = "Furniture"
           /\ \E i \in DOMAIN items : items[i].id = list[k].ref
        THEN LET owner == CHOOSE j \in DOMAIN items : items[j].id = list[k].ref
             IN  [list[k] EXCEPT !.data = items[owner].furn]
        ELSE list[k]]

MaxList == MaxFurniture + MaxDoors

UsedIds(items, doors, list) ==
    {items[i].id : i \in DOMAIN items} \cup {doors[j].id : j \in DOMAIN doors}
        \cup {list[k].ref : k \in DOMAIN list}

\* Object identity: a new object differs from every live one
NewId(items, doors, list) ==
    CHOOSE id \in 1..(2 * MaxList + 1) :
        /\ id \notin UsedIds(items, doors, list)
        /\ \A other \in 1..(id - 1) : other \in UsedIds(items, doors, list)

\* RoomPlanner._name_exists
NameExists(name, list) ==
    \E k \in DOMAIN list : list[k].data.name = name

DoorName(n) == "Door " \o ToString(n)

WindowName(n) == "Window " \o ToString(n)

\* A proposal without the probe: the counter as it stands
UnprobedDoorCounter(counter, list) == counter

\* A probe that restarts at 1: the first number whose default name is free
FirstFreeDoorNumber(counter, list) ==
    CHOOSE n \in 1..(Len(list) + 1) :
        /\ ~NameExists(DoorName(n), list)
        /\ \A m \in 1..(n - 1) : NameExists(DoorName(m), list)

\* add_door: while self._name_exists(f"Door {self.door_counter}"): counter += 1
RECURSIVE NextDoorCounter(_, _)
NextDoorCounter(counter, list) ==
    IF NameExists(DoorName(counter), list)
    THEN NextDoorCounter(counter + 1, list)
    ELSE counter

\* add_window: while self._name_exists(f"Window {self.window_counter}"): ...
RECURSIVE NextWindowCounter(_, _)
NextWindowCounter(counter, list) ==
    IF NameExists(WindowName(counter), list)
    THEN NextWindowCounter(counter + 1, list)
    ELSE counter


-----------------------------------------------------------------------------
(* Initial state: RoomPlanner.__init__ with no stored settings *)

DefaultScale == 60

NoDialog == [kind |-> "none", name_input |-> ""]

NoClipboard == [kind |-> "none"]

NoFile == [kind |-> "missing"]

NoMessage == ""

MsgSaved == "Success: Layout saved"

MsgSaveFailed == "Error: Failed to save layout"

MsgLoaded == "Success: Layout loaded"

MsgLoadFailed == "Error: Failed to load layout"

\* QSettings with no key stored: the first run of the application
EmptySettings == << >>

\* The room fields as _build_ui leaves them: 16.0 ft by 12.0 ft
InitialForm ==
    [w_spin |-> R(16), w_unit |-> "ft", d_spin |-> R(12), d_unit |-> "ft",
     current_room_unit |-> "ft"]

\* No conversion function was called directly
NoConversion == [fn |-> "none"]

Init ==
    /\ pixels_per_m = DefaultScale
    /\ room_name = "My Room"
    /\ room_width_m = to_m(R(16), "ft")
    /\ room_depth_m = to_m(R(12), "ft")
    /\ current_floor_texture = "None"
    /\ show_room_border = TRUE
    /\ room_rect = RoomRect(to_m(R(16), "ft"), to_m(R(12), "ft"), DefaultScale)
    /\ snap_to_borders = FALSE
    /\ furniture_items = << >>
    /\ door_items = << >>
    /\ list_widget = << >>
    /\ door_counter = 1
    /\ window_counter = 1
    /\ clipboard_furniture = NoClipboard
    /\ dialog = NoDialog
    /\ file = NoFile
    /\ message = NoMessage
    /\ crashed = FALSE
    /\ used_numbers = [door |-> {}, window |-> {}]
    /\ closed = FALSE
    /\ settings = EmptySettings
    /\ room_form = InitialForm
    /\ conversion = NoConversion

\* The main window accepts a command: the process runs and no modal dialog is open
Idle == ~crashed /\ ~closed /\ dialog.kind = "none"

roomVars == << room_name, room_width_m, room_depth_m, current_floor_texture,
               show_room_border, room_rect >>

counterVars == << door_counter, window_counter, used_numbers >>

-----------------------------------------------------------------------------
(* Furniture commands *)

\* RoomPlanner.on_add_furniture
on_add_furniture(f_name, w_value, w_unit, d_value, d_unit, f_colour) ==
    /\ Idle
    /\ Len(furniture_items) < MaxFurniture
    /\ Len(list_widget) < MaxList
    /\ LET name == IF f_name # "" THEN f_name
                   ELSE "Item " \o ToString(Len(list_widget) + 1)
           width_m == to_m(w_value, w_unit)
           depth_m == to_m(d_value, d_unit)
           furn == Furniture(name, width_m, depth_m, f_colour, Zero, Zero, 0)
           id == NewId(furniture_items, door_items, list_widget)
           item_rect == FurnitureItem(id, furn, pixels_per_m)
       IN  /\ furniture_items' = Append(furniture_items, item_rect)
           /\ list_widget' = Append(list_widget, ListEntry("Furniture", id, furn))
    /\ message' = NoMessage
    /\ UNCHANGED << pixels_per_m, roomVars, snap_to_borders, door_items,
                    counterVars, clipboard_furniture, dialog, file, crashed, closed, settings, room_form,
                    conversion >>

\* The user drags furniture item i: Qt calls setPos with the proposed position
move_furniture(i, value) ==
    /\ Idle
    /\ i \in DOMAIN furniture_items
    /\ furniture_items' =
           [furniture_items EXCEPT ![i] =
               setPos(@, value, snap_to_borders, room_width_m, room_depth_m)]
    /\ list_widget' = SharedData(list_widget, furniture_items')
    /\ message' = NoMessage
    /\ UNCHANGED << pixels_per_m, roomVars, snap_to_borders, door_items,
                    counterVars, clipboard_furniture, dialog, file, crashed, closed, settings, room_form,
                    conversion >>

\* FurnitureItem.rotate_90
rotate_90(i) ==
    /\ Idle
    /\ i \in DOMAIN furniture_items
    /\ furniture_items' =
           [furniture_items EXCEPT ![i].furn.rotation = (@ + 90) % 360]
    /\ list_widget' = SharedData(list_widget, furniture_items')
    /\ message' = NoMessage
    /\ UNCHANGED << pixels_per_m, roomVars, snap_to_borders, door_items,
                    counterVars, clipboard_furniture, dialog, file, crashed, closed, settings, room_form,
                    conversion >>

\* The first list entry whose data equals the Furniture (dataclass equality:
\* field by field), 0 when there is none
FirstEqualEntry(list, furn) ==
    IF \E k \in DOMAIN list : list[k].kind = "Furniture" /\ list[k].data = furn
    THEN CHOOSE k \in DOMAIN list :
            /\ list[k].kind = "Furniture" /\ list[k].data = furn
            /\ \A j \in 1..(k - 1) :
                   ~(list[j].kind = "Furniture" /\ list[j].data = furn)
    ELSE 0

\* RoomPlanner.remove_furniture_item
remove_furniture_item(i) ==
    /\ Idle
    /\ i \in DOMAIN furniture_items
    /\ LET k == FirstEqualEntry(list_widget, furniture_items[i].furn)
       IN  list_widget' = IF k = 0 THEN list_widget ELSE RemoveAt(list_widget, k)
    /\ furniture_items' = RemoveAt(furniture_items, i)
    /\ message' = NoMessage
    /\ UNCHANGED << pixels_per_m, roomVars, snap_to_borders, door_items,
                    counterVars, clipboard_furniture, dialog, file, crashed, closed, settings, room_form,
                    conversion >>

\* RoomPlanner.copy_furniture
Clipboard(furniture) ==
    [kind |-> "furniture", name |-> furniture.name, width_m |-> furniture.width_m,
     depth_m |-> furniture.depth_m, colour |-> ColourName(furniture.colour),
     rotation |-> furniture.rotation]

\* A paste that reads the model position back from where the item was placed
PastedItemAsPlaced(id, clip, scale, snap, room_w, room_d) ==
    LET furn == Furniture(clip.name \o " (Copy)", clip.width_m, clip.depth_m,
                          QColor(clip.colour), Zero, Zero, clip.rotation)
        center_x == RDiv(RMul(room_w, R(scale)), R(2))
        center_y == RDiv(RMul(room_d, R(scale)), R(2))
        placed == setPos(FurnitureItem(id, furn, scale), Point(center_x, center_y),
                         snap, room_w, room_d)
    IN  [placed EXCEPT !.furn.x_m = RDiv(placed.pos.x, R(scale)),
                       !.furn.y_m = RDiv(placed.pos.y, R(scale))]

\* paste_furniture(pos=None): the new item, placed at the room centre
PastedItem(id, clip, scale, snap, room_w, room_d) ==
    LET furn == Furniture(clip.name \o " (Copy)", clip.width_m, clip.depth_m,
                          QColor(clip.colour), Zero, Zero, clip.rotation)
        center_x == RDiv(RMul(room_w, R(scale)), R(2))
        center_y == RDiv(RMul(room_d, R(scale)), R(2))
        placed == setPos(FurnitureItem(id, furn, scale), Point(center_x, center_y),
                         snap, room_w, room_d)
    IN  [placed EXCEPT !.furn.x_m = RDiv(center_x, R(scale)),
                       !.furn.y_m = RDiv(center_y, R(scale))]

\* RoomPlanner.copy_selected_furniture (Ctrl+C, context menu Copy)
copy_furniture(i) ==
    /\ Idle
    /\ i \in DOMAIN furniture_items
    /\ clipboard_furniture' = Clipboard(furniture_items[i].furn)
    /\ message' = NoMessage
    /\ UNCHANGED << pixels_per_m, roomVars, snap_to_borders, furniture_items,
                    door_items, list_widget, counterVars, dialog, file, crashed, closed, settings, room_form,
                    conversion >>

\* The layout after paste_furniture() with clipboard clip
Pasted(clip) ==
    LET id == NewId(furniture_items, door_items, list_widget)
        item_rect == PastedItem(id, clip, pixels_per_m, snap_to_borders,
                                room_width_m, room_depth_m)
    IN  /\ furniture_items' = Append(furniture_items, item_rect)
        /\ list_widget' =
               Append(list_widget, ListEntry("Furniture", id, item_rect.furn))

\* RoomPlanner.paste_furniture_center (Ctrl+V)
paste_furniture ==
    /\ Idle
    /\ IF clipboard_furniture.kind = "none"
       THEN UNCHANGED << furniture_items, list_widget >>
       ELSE /\ Len(furniture_items) < MaxFurniture
            /\ Len(list_widget) < MaxList
            /\ Len(clipboard_furniture.name) + 7 <= MaxNameLen
            /\ Pasted(clipboard_furniture)
    /\ message' = NoMessage
    /\ UNCHANGED << pixels_per_m, roomVars, snap_to_borders, door_items,
                    counterVars, clipboard_furniture, dialog, file, crashed, closed, settings, room_form,
                    conversion >>

\* RoomPlanner.duplicate_selected_furniture (Ctrl+D): copy, then paste
duplicate_selected_furniture(i) ==
    /\ Idle
    /\ i \in DOMAIN furniture_items
    /\ Len(furniture_items) < MaxFurniture
    /\ Len(list_widget) < MaxList
    /\ Len(furniture_items[i].furn.name) + 7 <= MaxNameLen
    /\ clipboard_furniture' = Clipboard(furniture_items[i].furn)
    /\ Pasted(Clipboard(furniture_items[i].furn))
    /\ message' = NoMessage
    /\ UNCHANGED << pixels_per_m, roomVars, snap_to_borders, door_items,
                    counterVars, dialog, file, crashed, closed, settings, room_form,
                    conversion >>


-----------------------------------------------------------------------------
(* Doors and windows *)

\* add_door, up to dialog.exec(): the counter probe and the proposed name
add_door_open ==
    /\ Idle
    /\ Len(door_items) < MaxDoors
    /\ Len(list_widget) < MaxList
    /\ NextDoorCounter(door_counter, list_widget) <= MaxCounter
    /\ door_counter' = NextDoorCounter(door_counter, list_widget)
    /\ dialog' = [kind |-> "door", name_input |-> DoorName(door_counter')]
    /\ message' = NoMessage
    /\ UNCHANGED << pixels_per_m, roomVars, snap_to_borders, furniture_items,
                    door_items, list_widget, window_counter, used_numbers,
                    clipboard_furniture, file, crashed, closed, settings, room_form,
                    conversion >>

\* add_door: the door item, centred on the bottom wall
PlacedDoor(id, door_data, scale, room_w, room_d) ==
    LET door_x == RDiv(RSub(room_w, door_data.width_m), R(2))
        door_y == RSub(room_d, door_data.thickness_m)
    IN  [DoorItem(id, door_data, scale) EXCEPT
            !.pos = Point(RMul(door_x, R(scale)), RMul(door_y, R(scale)))]

\* add_door, dialog accepted with the text, width and thickness of its fields
add_door_accept(name, width, thickness) ==
    /\ ~crashed
    /\ dialog.kind = "door"
    /\ LET door_data == DoorWindow(name, width, thickness, TRUE)
           id == NewId(furniture_items, door_items, list_widget)
       IN  /\ door_items' = Append(door_items,
                  PlacedDoor(id, door_data, pixels_per_m, room_width_m, room_depth_m))
           /\ list_widget' = Append(list_widget, ListEntry("DoorWindow", id, door_data))
    /\ door_counter' = door_counter + 1
    /\ used_numbers' = [used_numbers EXCEPT !.door = @ \cup {door_counter}]
    /\ dialog' = NoDialog
    /\ message' = NoMessage
    /\ UNCHANGED << pixels_per_m, roomVars, snap_to_borders, furniture_items,
                    window_counter, clipboard_furniture, file, crashed, closed, settings, room_form,
                    conversion >>

\* add_door / add_window, dialog rejected
dialog_cancel ==
    /\ ~crashed
    /\ dialog.kind # "none"
    /\ dialog' = NoDialog
    /\ message' = NoMessage
    /\ UNCHANGED << pixels_per_m, roomVars, snap_to_borders, furniture_items,
                    door_items, list_widget, counterVars, clipboard_furniture,
                    file, crashed, closed, settings, room_form,
                    conversion >>

\* add_window, up to dialog.exec()
add_window_open ==
    /\ Idle
    /\ Len(door_items) < MaxDoors
    /\ Len(list_widget) < MaxList
    /\ NextWindowCounter(window_counter, list_widget) <= MaxCounter
    /\ window_counter' = NextWindowCounter(window_counter, list_widget)
    /\ dialog' = [kind |-> "window", name_input |-> WindowName(window_counter')]
    /\ message' = NoMessage
    /\ UNCHANGED << pixels_per_m, roomVars, snap_to_borders, furniture_items,
                    door_items, list_widget, door_counter, used_numbers,
                    clipboard_furniture, file, crashed, closed, settings, room_form,
                    conversion >>

\* add_window: the window item, centred on the top wall
PlacedWindow(id, window_data, scale, room_w) ==
    LET window_x == RDiv(RSub(room_w, window_data.width_m), R(2))
        window_y == Zero
    IN  [DoorItem(id, window_data, scale) EXCEPT
            !.pos = Point(RMul(window_x, R(scale)), RMul(window_y, R(scale)))]

\* add_window, dialog accepted
add_window_accept(name, width, thickness) ==
    /\ ~crashed
    /\ dialog.kind = "window"
    /\ LET window_data == DoorWindow(name, width, thickness, FALSE)
           id == NewId(furniture_items, door_items, list_widget)
       IN  /\ door_items' = Append(door_items,
                  PlacedWindow(id, window_data, pixels_per_m, room_width_m))
           /\ list_widget' =
                  Append(list_widget, ListEntry("DoorWindow", id, window_data))
    /\ window_counter' = window_counter + 1
    /\ used_numbers' = [used_numbers EXCEPT !.window = @ \cup {window_counter}]
    /\ dialog' = NoDialog
    /\ message' = NoMessage
    /\ UNCHANGED << pixels_per_m, roomVars, snap_to_borders, furniture_items,
                    door_counter, clipboard_furniture, file, crashed, closed, settings, room_form,
                    conversion >>

\* RoomPlanner._remove_door_from_list: the first DoorWindow entry of that name
RemoveDoorFromList(list, door_name) ==
    IF \E k \in DOMAIN list :
           list[k].kind = "DoorWindow" /\ list[k].data.name = door_name
    THEN LET k == CHOOSE k \in DOMAIN list :
                    /\ list[k].kind = "DoorWindow" /\ list[k].data.name = door_name
                    /\ \A j \in 1..(k - 1) :
                           ~(list[j].kind = "DoorWindow"
                             /\ list[j].data.name = door_name)
         IN  RemoveAt(list, k)
    ELSE list

\* DoorItem.delete_self
door_delete_self(j) ==
    /\ Idle
    /\ j \in DOMAIN door_items
    /\ door_items' = RemoveAt(door_items, j)
    /\ list_widget' = RemoveDoorFromList(list_widget, door_items[j].door_window.name)
    /\ message' = NoMessage
    /\ UNCHANGED << pixels_per_m, roomVars, snap_to_borders, furniture_items,
                    counterVars, clipboard_furniture, dialog, file, crashed, closed, settings, room_form,
                    conversion >>

\* DoorItem.toggle_door: only doors open and close
toggle_door(j) ==
    /\ Idle
    /\ j \in DOMAIN door_items
    /\ door_items' = IF door_items[j].door_window.is_door
                     THEN [door_items EXCEPT ![j].is_open = ~@]
                     ELSE door_items
    /\ message' = NoMessage
    /\ UNCHANGED << pixels_per_m, roomVars, snap_to_borders, furniture_items,
                    list_widget, counterVars, clipboard_furniture, dialog, file,
                    crashed, closed, settings, room_form,
                    conversion >>

-----------------------------------------------------------------------------
(* Room commands *)

\* RoomPlanner.toggle_snap_to_borders (the snap checkbox is clicked)
toggle_snap_to_borders ==
    /\ Idle
    /\ snap_to_borders' = ~snap_to_borders
    /\ message' = NoMessage
    /\ UNCHANGED << pixels_per_m, roomVars, furniture_items, door_items,
                    list_widget, counterVars, clipboard_furniture, dialog, file,
                    crashed, closed, settings, room_form,
                    conversion >>

\* RoomPlanner.on_room_apply, clicked with the room fields filled in as given:
\* current_room_unit follows room_w_unit on every change of a unit selector
on_room_apply(w_value, w_unit, d_value, d_unit) ==
    /\ Idle
    /\ room_width_m' = to_m(w_value, w_unit)
    /\ room_depth_m' = to_m(d_value, d_unit)
    /\ room_rect' = RoomRect(room_width_m', room_depth_m', pixels_per_m)
    /\ room_form' = [w_spin |-> w_value, w_unit |-> w_unit, d_spin |-> d_value,
                     d_unit |-> d_unit, current_room_unit |-> w_unit]
    /\ message' = NoMessage
    /\ UNCHANGED << pixels_per_m, room_name, current_floor_texture,
                    show_room_border, snap_to_borders, furniture_items, door_items,
                    list_widget, counterVars, clipboard_furniture, dialog, file,
                    crashed, closed, settings, conversion >>

\* RoomPlanner._update_room_unit_display: the width field is converted from
\* current_room_unit to the width selector's unit, the depth field is left alone
update_room_unit_display(form) ==
    LET old_unit == form.current_room_unit
        converted ==
            IF old_unit # form.w_unit
            THEN [form EXCEPT !.w_spin =
                     setValue(from_m(to_m(form.w_spin, old_unit), form.w_unit))]
            ELSE form
    IN  [converted EXCEPT !.current_room_unit = form.w_unit]

formVars == << pixels_per_m, roomVars, snap_to_borders, furniture_items,
               door_items, list_widget, counterVars, clipboard_furniture, dialog,
               file, crashed, closed, settings, conversion >>

\* room_w_unit.currentTextChanged: another unit is picked for the width field
room_w_unit_changed(unit) ==
    /\ Idle
    /\ unit # room_form.w_unit
    /\ room_form' = update_room_unit_display([room_form EXCEPT !.w_unit = unit])
    /\ message' = NoMessage
    /\ UNCHANGED formVars

\* room_d_unit.currentTextChanged: another unit is picked for the depth field
room_d_unit_changed(unit) ==
    /\ Idle
    /\ unit # room_form.d_unit
    /\ room_form' = update_room_unit_display([room_form EXCEPT !.d_unit = unit])
    /\ message' = NoMessage
    /\ UNCHANGED formVars

\* A number is typed into room_w_spin and room_d_spin: two decimals, 1..1000
room_spin_edited(w_value, d_value) ==
    /\ Idle
    /\ room_form' = [room_form EXCEPT !.w_spin = setValue(w_value),
                                      !.d_spin = setValue(d_value)]
    /\ message' = NoMessage
    /\ UNCHANGED formVars

\* The Apply Room Size button, clicked with the room fields as they stand
room_apply_clicked ==
    on_room_apply(room_form.w_spin, room_form.w_unit,
                  room_form.d_spin, room_form.d_unit)

\* RoomPlanner.on_room_name_changed
on_room_name_changed(text) ==
    /\ Idle
    /\ room_name' = text
    /\ message' = NoMessage
    /\ UNCHANGED << pixels_per_m, room_width_m, room_depth_m,
                    current_floor_texture, show_room_border, room_rect,
                    snap_to_borders, furniture_items, door_items, list_widget,
                    counterVars, clipboard_furniture, dialog, file, crashed, closed, settings, room_form,
                    conversion >>

\* RoomPlanner.on_floor_changed
on_floor_changed(texture_name) ==
    /\ Idle
    /\ texture_name \in TEXTURES
    /\ current_floor_texture' = texture_name
    /\ message' = NoMessage
    /\ UNCHANGED << pixels_per_m, room_name, room_width_m, room_depth_m,
                    show_room_border, room_rect, snap_to_borders, furniture_items,
                    door_items, list_widget, counterVars, clipboard_furniture,
                    dialog, file, crashed, closed, settings, room_form,
                    conversion >>

\* The border checkbox is clicked: toggled -> toggle_room_border, whose
\* setChecked finds the box already in the new state
border_checkbox_clicked ==
    /\ Idle
    /\ show_room_border' = ~show_room_border
    /\ message' = NoMessage
    /\ UNCHANGED << pixels_per_m, room_name, room_width_m, room_depth_m,
                    current_floor_texture, room_rect, snap_to_borders,
                    furniture_items, door_items, list_widget, counterVars,
                    clipboard_furniture, dialog, file, crashed, closed, settings, room_form,
                    conversion >>

\* A new_room that clears the lists but leaves the name counters as they are
new_room_keeping_counters ==
    /\ Idle
    /\ furniture_items' = << >>
    /\ door_items' = << >>
    /\ list_widget' = << >>
    /\ room_rect' = RoomRect(room_width_m, room_depth_m, pixels_per_m)
    /\ message' = NoMessage
    /\ UNCHANGED << pixels_per_m, room_name, room_width_m, room_depth_m,
                    current_floor_texture, show_room_border, snap_to_borders,
                    counterVars, clipboard_furniture, dialog, file, crashed, closed, settings, room_form,
                    conversion >>

\* RoomPlanner.new_room
new_room ==
    /\ Idle
    /\ furniture_items' = << >>
    /\ door_items' = << >>
    /\ list_widget' = << >>
    /\ door_counter' = 1
    /\ window_counter' = 1
    /\ used_numbers' = [door |-> {}, window |-> {}]
    /\ room_rect' = RoomRect(room_width_m, room_depth_m, pixels_per_m)
    /\ message' = NoMessage
    /\ UNCHANGED << pixels_per_m, room_name, room_width_m, room_depth_m,
                    current_floor_texture, show_room_border, snap_to_borders,
                    clipboard_furniture, dialog, file, crashed, closed, settings, room_form,
                    conversion >>

-----------------------------------------------------------------------------
(* Canvas scale *)

\* _set_canvas_scale, one furniture item: setRect, setPos, then item.scale
RescaledItem(item, scale, snap, room_w, room_d) ==
    LET sized == [item EXCEPT !.rect = Size(RMul(item.furn.width_m, R(scale)),
                                            RMul(item.furn.depth_m, R(scale)))]
        moved == setPos(sized,
                        Point(RMul(item.furn.x_m, R(scale)),
                              RMul(item.furn.y_m, R(scale))),
                        snap, room_w, room_d)
    IN  [moved EXCEPT !.scale = scale]

\* _set_canvas_scale: the loop over self.furniture_items
RescaledFurniture(items, scale, snap, room_w, room_d) ==
    [i \in DOMAIN items |-> RescaledItem(items[i], scale, snap, room_w, room_d)]

\* A coordinate the model follows: zero, or between 1/MaxCoord and MaxCoord metres
Representable(v) ==
    v.n = 0 \/ (Abs(v.n) <= MaxCoord * v.d /\ v.d <= MaxCoord * Abs(v.n))

\* A rescale that skips draw_room_border: the room keeps its old display rectangle
set_canvas_scale_stale_room(scale) ==
    /\ Idle
    /\ pixels_per_m' = scale
    /\ furniture_items' = RescaledFurniture(furniture_items, scale, snap_to_borders,
                                            room_width_m, room_depth_m)
    /\ \A i \in DOMAIN furniture_items' :
           /\ Representable(furniture_items'[i].furn.x_m)
           /\ Representable(furniture_items'[i].furn.y_m)
    /\ list_widget' = SharedData(list_widget, furniture_items')
    /\ message' = NoMessage
    /\ UNCHANGED << roomVars, snap_to_borders, door_items, counterVars,
                    clipboard_furniture, dialog, file, crashed, closed, settings, room_form,
                    conversion >>

\* RoomPlanner._set_canvas_scale (SettingsDialog.on_scale_changed)
set_canvas_scale(scale) ==
    /\ Idle
    /\ pixels_per_m' = scale
    /\ room_rect' = RoomRect(room_width_m, room_depth_m, scale)
    /\ furniture_items' = RescaledFurniture(furniture_items, scale, snap_to_borders,
                                            room_width_m, room_depth_m)
    /\ \A i \in DOMAIN furniture_items' :
           /\ Representable(furniture_items'[i].furn.x_m)
           /\ Representable(furniture_items'[i].furn.y_m)
    /\ list_widget' = SharedData(list_widget, furniture_items')
    /\ message' = NoMessage
    /\ UNCHANGED << room_name, room_width_m, room_depth_m, current_floor_texture,
                    show_room_border, snap_to_borders, door_items, counterVars,
                    clipboard_furniture, dialog, file, crashed, closed, settings, room_form,
                    conversion >>


-----------------------------------------------------------------------------
(* Persistence: the layout document *)

Get(rec, key, default) == IF key \in DOMAIN rec THEN rec[key] ELSE default

\* save_layout: one entry of layout_data['furniture']
FurnitureEntry(furn) ==
    [name |-> furn.name, width_m |-> furn.width_m, depth_m |-> furn.depth_m,
     colour |-> ColourName(furn.colour), x_m |-> furn.x_m, y_m |-> furn.y_m,
     rotation |-> furn.rotation]

\* A document that also lists the openings with their open/closed state
LayoutDataWithOpenings(name, width_m, depth_m, floor_texture, show_border, items) ==
    [kind |-> "json",
     room |-> [name |-> name, width_m |-> width_m, depth_m |-> depth_m,
               floor_texture |-> floor_texture, show_border |-> show_border],
     furniture |-> [i \in DOMAIN items |-> FurnitureEntry(items[i].furn)],
     openings |-> [j \in DOMAIN door_items |->
                      [name |-> door_items[j].door_window.name,
                       is_open |-> door_items[j].is_open]]]

\* save_layout: layout_data, as json.dump writes it and json.load reads it back
LayoutData(name, width_m, depth_m, floor_texture, show_border, items) ==
    [kind |-> "json",
     room |-> [name |-> name, width_m |-> width_m, depth_m |-> depth_m,
               floor_texture |-> floor_texture, show_border |-> show_border],
     furniture |-> [i \in DOMAIN items |-> FurnitureEntry(items[i].furn)]]

CurrentLayoutData ==
    LayoutData(room_name, room_width_m, room_depth_m, current_floor_texture,
               show_room_border, furniture_items)

\* A file that cannot be opened or holds no JSON
Unparsable == [kind |-> "unparsable"]

\* A save that tidies the layout it wrote: furniture rotation and the snap flag
save_layout_tidying(outcome) ==
    /\ Idle
    /\ outcome \in {"cancel", "written", "error"}
    /\ file' = IF outcome = "written" THEN CurrentLayoutData ELSE file
    /\ message' = CASE outcome = "cancel" -> NoMessage
                    [] outcome = "written" -> MsgSaved
                    [] outcome = "error" -> MsgSaveFailed
    /\ snap_to_borders' = (snap_to_borders /\ outcome # "written")
    /\ UNCHANGED << pixels_per_m, roomVars, furniture_items,
                    door_items, list_widget, counterVars, clipboard_furniture,
                    dialog, crashed, closed, settings, room_form,
                    conversion >>

\* RoomPlanner.save_layout: the dialog is cancelled, the write succeeds, or it fails
save_layout(outcome) ==
    /\ Idle
    /\ outcome \in {"cancel", "written", "error"}
    /\ file' = IF outcome = "written" THEN CurrentLayoutData ELSE file
    /\ message' = CASE outcome = "cancel" -> NoMessage
                    [] outcome = "written" -> MsgSaved
                    [] outcome = "error" -> MsgSaveFailed
    /\ UNCHANGED << pixels_per_m, roomVars, snap_to_borders, furniture_items,
                    door_items, list_widget, counterVars, clipboard_furniture,
                    dialog, crashed, closed, settings, room_form,
                    conversion >>

RequiredKeys == {"name", "width_m", "depth_m", "colour", "x_m", "y_m"}

\* load_layout: the loop over layout_data.get('furniture', []); a missing key
\* raises KeyError and leaves the items created so far
RECURSIVE LoadedFurniture(_, _, _, _, _, _)
LoadedFurniture(entries, scale, snap, room_w, room_d, acc) ==
    IF entries = << >>
    THEN acc
    ELSE LET furn_data == Head(entries)
         IN  IF ~(RequiredKeys \subseteq DOMAIN furn_data)
             THEN [acc EXCEPT !.ok = FALSE]
             ELSE LET furn == Furniture(furn_data.name, furn_data.width_m,
                                        furn_data.depth_m, QColor(furn_data.colour),
                                        furn_data.x_m, furn_data.y_m,
                                        Get(furn_data, "rotation", 0))
                      id == NewId(acc.items, << >>, acc.list)
                      item_rect ==
                          setPos(FurnitureItem(id, furn, scale),
                                 Point(RMul(furn.x_m, R(scale)),
                                       RMul(furn.y_m, R(scale))),
                                 snap, room_w, room_d)
                  IN  LoadedFurniture(Tail(entries), scale, snap, room_w, room_d,
                          [ok |-> TRUE,
                           items |-> Append(acc.items, item_rect),
                           list |-> Append(acc.list,
                                       ListEntry("Furniture", id, item_rect.furn))])

\* A load that skips new_room(): the loop appends to the lists already there
UnclearedLayout == [ok |-> TRUE, items |-> furniture_items, list |-> list_widget]

\* load_layout calls new_room() first: the furniture loop appends to empty lists
ClearedLayout == [ok |-> TRUE, items |-> << >>, list |-> << >>]

\* load_layout after json.load: new_room(), the room data, then the furniture.
\* border_checkbox.setChecked(v) with the box in the other state emits toggled,
\* toggle_room_border flips the flag and calls setChecked again: the recursion
\* does not end and the process is aborted.
Loaded(layout_data, scale, snap, border_checkbox) ==
    LET room_data == Get(layout_data, "room", << >>)
        name == Get(room_data, "name", "My Room")
        width_m == Get(room_data, "width_m", Rat(50, 10))
        depth_m == Get(room_data, "depth_m", Rat(40, 10))
        floor_texture == Get(room_data, "floor_texture", "None")
        show_border == Get(room_data, "show_border", TRUE)
        loaded == LoadedFurniture(Get(layout_data, "furniture", << >>),
                                  scale, snap, width_m, depth_m, ClearedLayout)
    IN  [crash |-> show_border # border_checkbox,
         ok |-> floor_texture \in TEXTURES /\ loaded.ok,
         room_name |-> name, room_width_m |-> width_m, room_depth_m |-> depth_m,
         current_floor_texture |-> floor_texture, show_room_border |-> show_border,
         furniture_items |-> IF floor_texture \in TEXTURES THEN loaded.items ELSE << >>,
         list_widget |-> IF floor_texture \in TEXTURES THEN loaded.list ELSE << >>]

\* RoomPlanner.load_layout on the chosen file
load_layout(content) ==
    /\ Idle
    /\ content.kind \in {"json", "unparsable"}
    /\ IF content.kind = "unparsable"
       THEN /\ message' = MsgLoadFailed
            /\ UNCHANGED << roomVars, furniture_items, door_items, list_widget,
                            counterVars, crashed, room_form >>
       ELSE LET new == Loaded(content, pixels_per_m, snap_to_borders,
                              show_room_border)
            IN  IF new.crash
                THEN /\ crashed' = TRUE
                     /\ message' = NoMessage
                     /\ UNCHANGED << roomVars, furniture_items, door_items,
                                     list_widget, counterVars, room_form >>
                ELSE /\ room_name' = new.room_name
                     /\ room_width_m' = new.room_width_m
                     /\ room_depth_m' = new.room_depth_m
                     /\ current_floor_texture' = new.current_floor_texture
                     /\ show_room_border' = new.show_room_border
                     /\ room_rect' = RoomRect(new.room_width_m, new.room_depth_m,
                                              pixels_per_m)
                     /\ furniture_items' = new.furniture_items
                     /\ door_items' = << >>
                     /\ list_widget' = new.list_widget
                     /\ door_counter' = 1
                     /\ window_counter' = 1
                     /\ used_numbers' = [door |-> {}, window |-> {}]
                     /\ room_form' =
                            [room_form EXCEPT
                                !.w_spin = setValue(from_m(new.room_width_m,
                                                           room_form.w_unit)),
                                !.d_spin = setValue(from_m(new.room_depth_m,
                                                           room_form.d_unit))]
                     /\ message' = IF new.ok THEN MsgLoaded ELSE MsgLoadFailed
                     /\ UNCHANGED crashed
    /\ UNCHANGED << pixels_per_m, snap_to_borders, clipboard_furniture, dialog, file,
                    closed, settings, conversion >>

\* RoomPlanner.load_layout, file dialog cancelled
load_layout_cancel ==
    /\ Idle
    /\ message' = NoMessage
    /\ UNCHANGED << pixels_per_m, roomVars, snap_to_borders, furniture_items,
                    door_items, list_widget, counterVars, clipboard_furniture,
                    dialog, file, crashed, closed, settings, room_form,
                    conversion >>


\* Toggle Room Border from the View menu (Ctrl+B): toggle_room_border flips the
\* flag and calls setChecked on a box in the other state; see Loaded
toggle_room_border_menu ==
    /\ Idle
    /\ crashed' = TRUE
    /\ message' = NoMessage
    /\ UNCHANGED << pixels_per_m, roomVars, snap_to_borders, furniture_items,
                    door_items, list_widget, counterVars, clipboard_furniture,
                    dialog, file, closed, settings, room_form,
                    conversion >>

-----------------------------------------------------------------------------
(* The inputs the commands are tried with *)

\* SettingsDialog.scale_slider values
Scales == {30, 60}

\* f_name texts; the empty text takes the default "Item n"
FurnitureNames == {"", "Sofa", "Door 2"}

\* f_colour as on_pick_colour leaves it: QColorDialog returns opaque colours
Colours == {QColor("#4a90e2")}

\* Proposed positions of a drag, in pixels: inside the room and outside it
DragTargets == {Point(R(60), R(30)), Point(R(-60), R(600))}

\* Texts the user may leave in the dialog's name field besides the proposed one
TypedNames == {"Door 1", "Sofa"}

\* Layout files found on disk besides the one save_layout wrote
ExternalFiles ==
    { Unparsable,
      [kind |-> "json",
       room |-> [name |-> "Den", width_m |-> R(3), depth_m |-> R(2)],
       furniture |-> << [name |-> "Desk", width_m |-> R(1), depth_m |-> Rat(1, 2),
                         colour |-> "#ff0000", x_m |-> R(4), y_m |-> R(1)] >>],
      [kind |-> "json",
       room |-> [name |-> "Den", width_m |-> R(3), depth_m |-> R(2)],
       furniture |-> << [name |-> "Desk", width_m |-> R(1), depth_m |-> Rat(1, 2),
                         colour |-> "#ff0000", x_m |-> R(1), y_m |-> R(1),
                         rotation |-> 90],
                        [name |-> "Chair"] >>],
      [kind |-> "json",
       furniture |-> << [name |-> "Bed", width_m |-> R(2), depth_m |-> R(1),
                         colour |-> "#00ff00", x_m |-> Zero, y_m |-> Zero,
                         rotation |-> 180],
                        [name |-> "Desk", width_m |-> R(1), depth_m |-> Rat(1, 2),
                         colour |-> "#ff0000", x_m |-> R(1), y_m |-> R(1)] >>] }

-----------------------------------------------------------------------------
(* The program: every command *)

Next ==
    \/ \E n \in FurnitureNames, c \in Colours :
           on_add_furniture(n, R(72), "in", R(36), "in", c)
    \/ \E i \in 1..MaxFurniture, t \in DragTargets : move_furniture(i, t)
    \/ \E i \in 1..MaxFurniture : rotate_90(i)
    \/ \E i \in 1..MaxFurniture : remove_furniture_item(i)
    \/ \E i \in 1..MaxFurniture : copy_furniture(i)
    \/ paste_furniture
    \/ \E i \in 1..MaxFurniture : duplicate_selected_furniture(i)
    \/ add_door_open
    \/ \E n \in TypedNames \cup {dialog.name_input} :
           add_door_accept(n, R(1), Rat(1, 10))
    \/ add_window_open
    \/ \E n \in TypedNames \cup {dialog.name_input} :
           add_window_accept(n, Rat(15, 10), Rat(2, 10))
    \/ dialog_cancel
    \/ \E j \in 1..MaxDoors : door_delete_self(j)
    \/ \E j \in 1..MaxDoors : toggle_door(j)
    \/ toggle_snap_to_borders
    \/ on_room_apply(R(16), "ft", R(12), "ft")
    \/ on_room_apply(R(3), "m", R(1), "m")
    \/ \E t \in {"My Room", "Den"} : on_room_name_changed(t)
    \/ \E t \in {"None", "Carpet"} : on_floor_changed(t)
    \/ border_checkbox_clicked
    \/ toggle_room_border_menu
    \/ new_room
    \/ \E s \in Scales : set_canvas_scale(s)
    \/ \E o \in {"cancel", "written", "error"} : save_layout(o)
    \/ \E f \in ExternalFiles \cup {file} : load_layout(f)
    \/ load_layout_cancel

Spec == Init /\ [][Next]_vars


-----------------------------------------------------------------------------
(* Geometry: furniture, openings and the canvas scale *)

\* At most MaxScaled furniture items and MaxScaled openings are followed here
NextScale ==
    \/ /\ Len(furniture_items) < MaxScaled
       /\ on_add_furniture("Sofa", R(72), "in", R(36), "in", QColor("#4a90e2"))
    \/ \E i \in 1..MaxFurniture, t \in DragTargets : move_furniture(i, t)
    \/ /\ Len(door_items) < MaxScaled
       /\ add_door_open
    \/ add_door_accept(dialog.name_input, R(1), Rat(1, 10))
    \/ dialog_cancel
    \/ toggle_snap_to_borders
    \/ \E s \in Scales : set_canvas_scale(s)

SpecScale == Init /\ [][NextScale]_vars

\* The model-space values of the furniture
ModelValues(items) == [i \in DOMAIN items |-> items[i].furn]

\* C1: a rescale alters no model-space value: every piece's x_m, y_m, width_m,
\* depth_m and rotation are the same after _set_canvas_scale as before it.
C1_RescaleKeepsModelValues ==
    [][(\E s \in Scales : set_canvas_scale(s))
          => ModelValues(furniture_items') = ModelValues(furniture_items)]_vars

\* C2: a rescale visits every tracked item: afterwards every furniture item and
\* every door/window item has the new scale, a display size of its model size
\* times the new scale, and a display position recomputed for the new scale.
C2_RescaleVisitsEveryItem ==
    [][\A s \in Scales : set_canvas_scale(s) =>
          /\ \A i \in DOMAIN furniture_items' :
                LET old == furniture_items[i]
                    new == furniture_items'[i]
                IN  /\ new.scale = s
                    /\ new.rect = Size(RMul(old.furn.width_m, R(s)),
                                       RMul(old.furn.depth_m, R(s)))
                    /\ snap_to_borders
                         \/ new.pos = Point(RMul(old.furn.x_m, R(s)),
                                            RMul(old.furn.y_m, R(s)))
          /\ \A j \in DOMAIN door_items' :
                LET old == door_items[j]
                    new == door_items'[j]
                IN  /\ new.scale = s
                    /\ new.rect = Size(RMul(old.door_window.width_m, R(s)),
                                       RMul(old.door_window.thickness_m, R(s)))
                    /\ RMul(new.pos.x, R(old.scale)) = RMul(old.pos.x, R(s))
                    /\ RMul(new.pos.y, R(old.scale)) = RMul(old.pos.y, R(s))]_vars

\* C3: every furniture piece and every opening is displayed at
\* (x_m * pixels_per_m, y_m * pixels_per_m), its own scale being pixels_per_m.
C3_DisplayIsModelTimesScale ==
    ~crashed =>
        /\ \A i \in DOMAIN furniture_items :
              LET item == furniture_items[i]
              IN  /\ item.scale = pixels_per_m
                  /\ item.pos = Point(RMul(item.furn.x_m, R(pixels_per_m)),
                                      RMul(item.furn.y_m, R(pixels_per_m)))
        /\ \A j \in DOMAIN door_items :
              LET item == door_items[j]
              IN  /\ item.scale = pixels_per_m
                  /\ item.pos = Point(RMul(item.door_window.x_m, R(pixels_per_m)),
                                      RMul(item.door_window.y_m, R(pixels_per_m)))

\* The display geometry of the tracked items
DisplayGeometry(items, doors) ==
    << [i \in DOMAIN items |-> << items[i].pos, items[i].rect >>],
       [j \in DOMAIN doors |-> << doors[j].pos, doors[j].rect >>] >>

\* C7: rescale(s1), rescale(s2), rescale(s1) leaves every tracked item with the
\* display position and size it had right after the first rescale(s1).
C7_RescaleInverse ==
    \A s1 \in Scales, s2 \in Scales :
        LET first == RescaledFurniture(furniture_items, s1, snap_to_borders,
                                       room_width_m, room_depth_m)
            second == RescaledFurniture(first, s2, snap_to_borders,
                                        room_width_m, room_depth_m)
            third == RescaledFurniture(second, s1, snap_to_borders,
                                       room_width_m, room_depth_m)
        IN  DisplayGeometry(third, door_items) = DisplayGeometry(first, door_items)


-----------------------------------------------------------------------------
(* Persistence: saving and loading a layout *)

NextLoad ==
    \/ /\ Len(furniture_items) < MaxScaled
       /\ on_add_furniture("Sofa", R(72), "in", R(36), "in", QColor("#4a90e2"))
    \/ \E i \in 1..MaxScaled, t \in DragTargets : move_furniture(i, t)
    \/ /\ Len(door_items) < MaxScaled
       /\ add_door_open
    \/ add_door_accept(dialog.name_input, R(1), Rat(1, 10))
    \/ dialog_cancel
    \/ toggle_snap_to_borders
    \/ border_checkbox_clicked
    \/ \E o \in {"cancel", "written", "error"} : save_layout(o)
    \/ \E f \in ExternalFiles \cup {file} : load_layout(f)
    \/ load_layout_cancel

SpecLoad == Init /\ [][NextLoad]_vars

\* The in-memory layout: room, furniture, openings, list and name counters
Layout ==
    << room_name, room_width_m, room_depth_m, current_floor_texture,
       show_room_border, furniture_items, door_items, list_widget,
       door_counter, window_counter >>

\* C4: a load that fails (unreadable file, malformed JSON, a furniture entry
\* missing a required key) leaves the in-memory layout exactly as it was.
C4_FailedLoadKeepsLayout ==
    [][message' = MsgLoadFailed => Layout' = Layout]_vars

\* C5: saving a layout and loading the written document yields the saved room
\* name, size, floor texture and border flag and the saved furniture sequence
\* (name, width_m, depth_m, colour, x_m, y_m, rotation, in order), whatever the
\* snap flag and the canvas scale the load runs with.
C5_SaveLoadRoundTrip ==
    ~crashed =>
        \A snap \in BOOLEAN, scale \in Scales :
            LET new == Loaded(CurrentLayoutData, scale, snap, show_room_border)
            IN  /\ new.ok /\ ~new.crash
                /\ new.room_name = room_name
                /\ new.room_width_m = room_width_m
                /\ new.room_depth_m = room_depth_m
                /\ new.current_floor_texture = current_floor_texture
                /\ new.show_room_border = show_room_border
                /\ ModelValues(new.furniture_items) = ModelValues(furniture_items)

\* A furniture item made from document entry furn_data: the fields load_layout copies
MadeFrom(item, furn_data) ==
    /\ item.furn.name = furn_data.name
    /\ item.furn.width_m = furn_data.width_m
    /\ item.furn.depth_m = furn_data.depth_m
    /\ item.furn.colour = QColor(furn_data.colour)
    /\ item.furn.rotation = Get(furn_data, "rotation", 0)

\* C6: a successful load is an atomic replace: afterwards the tracked furniture
\* is the document's furniture array, entry by entry in document order, the list
\* holds exactly those pieces, and no earlier furniture, opening or list entry
\* remains.
C6_LoadReplacesLayout ==
    [][\A f \in ExternalFiles \cup {file} :
          (load_layout(f) /\ message' = MsgLoaded) =>
              LET entries == Get(f, "furniture", << >>)
              IN  /\ Len(furniture_items') = Len(entries)
                  /\ \A k \in DOMAIN entries :
                         MadeFrom(furniture_items'[k], entries[k])
                  /\ door_items' = << >>
                  /\ Len(list_widget') = Len(entries)
                  /\ \A k \in DOMAIN entries :
                         /\ list_widget'[k].kind = "Furniture"
                         /\ list_widget'[k].ref = furniture_items'[k].id
                         /\ list_widget'[k].data = furniture_items'[k].furn]_vars

\* C6 witness: a load succeeded and the tracked furniture is the two pieces of
\* the loaded document
C6_Witness ==
    /\ message = MsgLoaded
    /\ Len(furniture_items) = 2
    /\ furniture_items[1].furn.name = "Bed"
    /\ file.kind = "json"


-----------------------------------------------------------------------------
(* Name allocation for doors and windows *)

NextNames ==
    \/ /\ Len(furniture_items) < MaxScaled
       /\ \E n \in FurnitureNames :
              on_add_furniture(n, R(72), "in", R(36), "in", QColor("#4a90e2"))
    \/ \E i \in 1..MaxFurniture : remove_furniture_item(i)
    \/ add_door_open
    \/ \E n \in TypedNames \cup {dialog.name_input} :
           add_door_accept(n, R(1), Rat(1, 10))
    \/ add_window_open
    \/ add_window_accept(dialog.name_input, Rat(3, 2), Rat(1, 5))
    \/ dialog_cancel
    \/ \E j \in 1..MaxDoors : door_delete_self(j)
    \/ new_room

SpecNames == Init /\ [][NextNames]_vars

\* The names held by the tracked furniture pieces and openings
HeldNames ==
    {furniture_items[i].furn.name : i \in DOMAIN furniture_items}
        \cup {door_items[j].door_window.name : j \in DOMAIN door_items}

\* An opening is created in this step
OpeningCreated == Len(door_items') = Len(door_items) + 1

\* C8: an opening is created with a name (the dialog's text, possibly edited)
\* that no furniture piece and no opening already in the layout holds.
C8_CreatedNameIsNew ==
    [][OpeningCreated =>
          LET name == door_items'[Len(door_items')].door_window.name
          IN  name \notin HeldNames /\ ~NameExists(name, list_widget)]_vars

\* C9: the default name proposed by add_door/add_window after the counter probe
\* is held by no furniture piece or opening in the list when it is proposed.
C9_ProposedNameIsFree ==
    [][(add_door_open \/ add_window_open) =>
          /\ ~NameExists(dialog'.name_input, list_widget)
          /\ dialog'.name_input \notin HeldNames
          /\ dialog'.name_input \in {DoorName(door_counter'), WindowName(window_counter')}]_vars

\* C9 witness: "Door 3" is proposed while "Door 2" is the name of a furniture
\* piece and of no opening, after a deletion
C9_Witness ==
    /\ dialog.kind = "door"
    /\ dialog.name_input = "Door 3"
    /\ \E i \in DOMAIN furniture_items : furniture_items[i].furn.name = "Door 2"
    /\ door_items = << >>
    /\ used_numbers.door = {1}

\* A bulk clear: new room, or a load that got as far as clearing the layout
BulkClear ==
    \/ new_room
    \/ \E f \in ExternalFiles \cup {file} : load_layout(f) /\ f.kind = "json"

\* C10: between two bulk clears door_counter and window_counter never decrease,
\* and a counter value already used for a created opening is never proposed
\* again, also after deletions and cancelled dialogs.
C10_CountersMonotonic ==
    /\ [][(door_counter' >= door_counter /\ window_counter' >= window_counter)
              \/ BulkClear]_vars
    /\ [](dialog.kind = "door" => door_counter \notin used_numbers.door)
    /\ [](dialog.kind = "window" => window_counter \notin used_numbers.window)

\* C10 witness: a door is proposed anew after the opening made with counter
\* value 1 was deleted
C10_Witness ==
    /\ dialog.kind = "door"
    /\ 1 \in used_numbers.door
    /\ door_items = << >>
    /\ door_counter = 2


-----------------------------------------------------------------------------
(* New room *)

NextClear ==
    \/ /\ Len(furniture_items) < MaxScaled
       /\ \E n \in FurnitureNames :
              on_add_furniture(n, R(72), "in", R(36), "in", QColor("#4a90e2"))
    \/ \E i \in 1..MaxFurniture : copy_furniture(i)
    \/ add_door_open
    \/ \E n \in TypedNames \cup {dialog.name_input} :
           add_door_accept(n, R(1), Rat(1, 10))
    \/ add_window_open
    \/ add_window_accept(dialog.name_input, Rat(3, 2), Rat(1, 5))
    \/ dialog_cancel
    \/ \E j \in 1..MaxDoors : door_delete_self(j)
    \/ \E j \in 1..MaxDoors : toggle_door(j)
    \/ new_room

SpecClear == Init /\ [][NextClear]_vars

\* C11: after new_room, from any state, the furniture list, the opening list
\* and the item list are empty and both counters are 1, so that the next
\* add_door proposes "Door 1" and the next add_window proposes "Window 1".
C11_NewRoomResets ==
    [][new_room =>
          /\ furniture_items' = << >>
          /\ door_items' = << >>
          /\ list_widget' = << >>
          /\ door_counter' = 1
          /\ window_counter' = 1
          /\ DoorName(NextDoorCounter(door_counter', list_widget')) = "Door 1"
          /\ WindowName(NextWindowCounter(window_counter', list_widget')) = "Window 1"]_vars

\* C11 witness: "Door 1" is proposed for an empty layout while the clipboard
\* still holds a piece of the layout that new_room cleared
C11_Witness ==
    /\ dialog.kind = "door"
    /\ dialog.name_input = "Door 1"
    /\ clipboard_furniture # NoClipboard
    /\ furniture_items = << >>
    /\ door_items = << >>
    /\ list_widget = << >>


-----------------------------------------------------------------------------
(* Snap to the room's borders *)

\* Positions a drag proposes: inside the room, negative, beyond the far walls
Proposals ==
    DragTargets \cup {Point(R(2000), R(-5)), Point(R(60), R(600)), Point(Zero, Zero)}

NextSnap ==
    \/ /\ Len(furniture_items) < MaxScaled
       /\ \/ on_add_furniture("Sofa", R(72), "in", R(36), "in", QColor("#4a90e2"))
          \/ on_add_furniture("Rug", R(20), "ft", R(3), "ft", QColor("#4a90e2"))
    \/ \E i \in 1..MaxFurniture, t \in DragTargets : move_furniture(i, t)
    \/ \E i \in 1..MaxFurniture : rotate_90(i)
    \/ \E i \in 1..MaxFurniture : remove_furniture_item(i)
    \/ toggle_snap_to_borders
    \/ on_room_apply(R(16), "ft", R(12), "ft")
    \/ on_room_apply(R(16), "ft", R(2), "ft")
    \/ \E s \in Scales : set_canvas_scale(s)

SpecSnap == Init /\ [][NextSnap]_vars

\* The room's display width and height
RoomWidthPx == RMul(room_width_m, R(pixels_per_m))

RoomHeightPx == RMul(room_depth_m, R(pixels_per_m))

\* v clamped into [0, hi], for 0 <= hi
Clamped(v, hi) == IF RLt(v, Zero) THEN Zero ELSE IF RLt(hi, v) THEN hi ELSE v

\* C12: with snap-to-border on, for an item of unrotated display size (w, h)
\* in a room of display size (W, H) with w <= W and h <= H, every proposed
\* position is replaced by one with 0 <= x <= W - w and 0 <= y <= H - h, each
\* axis clamped on its own and a proposal inside the bounds kept as it is; a
\* drag of such an item to a new position leaves it inside the bounds.
C12_ClampInsideRoom ==
    /\ [](\A i \in DOMAIN furniture_items, p \in Proposals :
            LET item == furniture_items[i]
                xmax == RSub(RoomWidthPx, item.rect.w)
                ymax == RSub(RoomHeightPx, item.rect.h)
                q == ItemPositionChange(item, p, TRUE, room_width_m, room_depth_m)
            IN  (RLe(Zero, xmax) /\ RLe(Zero, ymax)) =>
                    /\ RLe(Zero, q.x) /\ RLe(q.x, xmax)
                    /\ RLe(Zero, q.y) /\ RLe(q.y, ymax)
                    /\ q.x = Clamped(p.x, xmax)
                    /\ q.y = Clamped(p.y, ymax))
    /\ [][\A i \in DOMAIN furniture_items, t \in DragTargets :
            LET item == furniture_items[i]
                xmax == RSub(RoomWidthPx, item.rect.w)
                ymax == RSub(RoomHeightPx, item.rect.h)
            IN  (/\ move_furniture(i, t)
                 /\ snap_to_borders
                 /\ t # item.pos
                 /\ RLe(Zero, xmax) /\ RLe(Zero, ymax)) =>
                    furniture_items'[i].pos = Point(Clamped(t.x, xmax), Clamped(t.y, ymax))]_vars

\* C12 witness: with snap on, a sofa that fits the room was dragged towards
\* (-60, 600) and sits at x = 0 against the far wall of the other axis
C12_Witness ==
    /\ snap_to_borders
    /\ Len(furniture_items) = 1
    /\ furniture_items[1].furn.name = "Sofa"
    /\ furniture_items[1].pos.x = Zero
    /\ furniture_items[1].pos.y = RSub(RoomHeightPx, furniture_items[1].rect.h)
    /\ RLt(Zero, furniture_items[1].pos.y)

\* C13: with snap-to-border on, an item larger than the room along an axis
\* gets coordinate 0 on that axis for every proposed position, without error,
\* and the other axis is clamped as usual.
C13_OversizeClampsToZero ==
    /\ [](\A i \in DOMAIN furniture_items, p \in Proposals :
            LET item == furniture_items[i]
                xmax == RSub(RoomWidthPx, item.rect.w)
                ymax == RSub(RoomHeightPx, item.rect.h)
                q == ItemPositionChange(item, p, TRUE, room_width_m, room_depth_m)
            IN  /\ RLt(xmax, Zero) => /\ q.x = Zero
                                      /\ RLe(Zero, ymax) => q.y = Clamped(p.y, ymax)
                /\ RLt(ymax, Zero) => /\ q.y = Zero
                                      /\ RLe(Zero, xmax) => q.x = Clamped(p.x, xmax))
    /\ [][\A i \in DOMAIN furniture_items, t \in DragTargets :
            LET item == furniture_items[i]
            IN  (move_furniture(i, t) /\ snap_to_borders /\ t # item.pos) =>
                    /\ RLt(RoomWidthPx, item.rect.w) => furniture_items'[i].pos.x = Zero
                    /\ RLt(RoomHeightPx, item.rect.h) => furniture_items'[i].pos.y = Zero]_vars

\* C13 witness: with snap on, the rug that is wider than the room was dragged
\* and sits at x = 0 with its other coordinate at the far wall
C13_Witness ==
    /\ snap_to_borders
    /\ Len(furniture_items) = 1
    /\ furniture_items[1].furn.name = "Rug"
    /\ RLt(RoomWidthPx, furniture_items[1].rect.w)
    /\ furniture_items[1].pos.x = Zero
    /\ RLt(Zero, furniture_items[1].pos.y)
    /\ furniture_items[1].pos.y = RSub(RoomHeightPx, furniture_items[1].rect.h)

\* C14: with snap-to-border off, also after it was on and an item was clamped,
\* a move of a furniture item to any proposed position, inside or outside the
\* room, is accepted as it is: the display position becomes the proposed one
\* and the model position becomes proposed / scale.
C14_FreeMoveWhenSnapOff ==
    [][\A i \in DOMAIN furniture_items, t \in DragTargets :
          (move_furniture(i, t) /\ ~snap_to_borders) =>
              /\ furniture_items'[i].pos = t
              /\ furniture_items'[i].furn.x_m = RDiv(t.x, R(pixels_per_m))
              /\ furniture_items'[i].furn.y_m = RDiv(t.y, R(pixels_per_m))]_vars

\* C14 witness: snap is off and the sofa sits outside the room at (-60, 600),
\* with the model position of that display position
C14_Witness ==
    /\ ~snap_to_borders
    /\ Len(furniture_items) = 1
    /\ furniture_items[1].furn.name = "Sofa"
    /\ furniture_items[1].pos = Point(R(-60), R(600))
    /\ furniture_items[1].furn.x_m = RDiv(R(-60), R(pixels_per_m))
    /\ RLt(RoomHeightPx, R(600))


-----------------------------------------------------------------------------
(* Entity invariants: rotation and dimensions *)

\* Layout documents that were not written by save_layout
ForeignFiles ==
    { [kind |-> "json",
       room |-> [name |-> "Den", width_m |-> R(3), depth_m |-> R(2)],
       furniture |-> << [name |-> "Desk", width_m |-> R(1), depth_m |-> Rat(1, 2),
                         colour |-> "#ff0000", x_m |-> R(1), y_m |-> R(1),
                         rotation |-> 450] >>],
      [kind |-> "json",
       room |-> [name |-> "Hall", width_m |-> Zero, depth_m |-> R(2)],
       furniture |-> << [name |-> "Box", width_m |-> R(-1), depth_m |-> Zero,
                         colour |-> "#00ff00", x_m |-> Zero, y_m |-> Zero,
                         rotation |-> 90] >>] }

NextEntities ==
    \/ /\ Len(furniture_items) < MaxScaled
       /\ on_add_furniture("Sofa", R(1), "in", R(1), "in", QColor("#4a90e2"))
    \/ \E i \in 1..MaxScaled : rotate_90(i)
    \/ \E i \in 1..MaxScaled : copy_furniture(i)
    \/ paste_furniture
    \/ \E i \in 1..MaxScaled : duplicate_selected_furniture(i)
    \/ on_room_apply(R(1), "in", R(1), "in")
    \/ /\ Len(door_items) < MaxScaled
       /\ add_door_open
    \/ add_door_accept(dialog.name_input, Rat(1, 10), Rat(1, 20))
    \/ /\ Len(door_items) < MaxScaled
       /\ add_window_open
    \/ add_window_accept(dialog.name_input, Rat(1, 10), Rat(1, 20))
    \/ dialog_cancel
    \/ \E f \in ForeignFiles : load_layout(f)

SpecEntities == Init /\ [][NextEntities]_vars

\* C15: in every reachable state (after add, rotate, copy/paste/duplicate,
\* load), the stored rotation of every furniture piece is in [0, 360).
C15_RotationNormalized ==
    \A i \in DOMAIN furniture_items :
        /\ 0 <= furniture_items[i].furn.rotation
        /\ furniture_items[i].furn.rotation < 360

\* C16: in every reachable state the room's width_m and depth_m, every
\* furniture piece's width_m and depth_m and every opening's width_m and
\* thickness_m are > 0.
C16_PositiveDimensions ==
    /\ RLt(Zero, room_width_m)
    /\ RLt(Zero, room_depth_m)
    /\ \A i \in DOMAIN furniture_items :
           /\ RLt(Zero, furniture_items[i].furn.width_m)
           /\ RLt(Zero, furniture_items[i].furn.depth_m)
    /\ \A j \in DOMAIN door_items :
           /\ RLt(Zero, door_items[j].door_window.width_m)
           /\ RLt(Zero, door_items[j].door_window.thickness_m)


-----------------------------------------------------------------------------
(* Settings and the autosave cache *)

\* _cache_current_room: the blob json.dumps writes and json.loads reads back
CachedRoom ==
    LayoutData(room_name, room_width_m, room_depth_m, current_floor_texture,
               show_room_border, furniture_items)

\* _save_settings: the store after the setValue calls
SavedSettings ==
    [canvas_scale |-> pixels_per_m,
     show_border |-> show_room_border,
     floor_texture |-> current_floor_texture,
     cached_room |-> CachedRoom]

\* The store with blob under the key "cached_room"
StoreWith(store, blob) ==
    [k \in DOMAIN store \cup {"cached_room"} |->
        IF k = "cached_room" THEN blob ELSE store[k]]

\* The store without the key "cached_room"
StoreWithoutCache(store) ==
    [k \in DOMAIN store \ {"cached_room"} |-> store[k]]

\* __init__ up to the end of _load_settings' own keys: scale, border, floor
LoadedSettings(store) ==
    LET border == Get(store, "show_border", TRUE)
        floor_texture == Get(store, "floor_texture", "None")
    IN  [crash |-> border # TRUE,
         pixels_per_m |-> Get(store, "canvas_scale", DefaultScale),
         show_room_border |-> border,
         current_floor_texture |->
             IF floor_texture \in TEXTURES THEN floor_texture ELSE "None"]

\* _load_cached_room after _load_settings left the window as base; the
\* except clause swallows every error and keeps what was done before it
LoadedCachedRoom(store, base) ==
    LET none == [crash |-> FALSE, ok |-> TRUE,
                 room_name |-> "My Room",
                 room_width_m |-> to_m(R(16), "ft"),
                 room_depth_m |-> to_m(R(12), "ft"),
                 current_floor_texture |-> base.current_floor_texture,
                 show_room_border |-> base.show_room_border,
                 furniture_items |-> << >>, list_widget |-> << >>]
    IN  IF "cached_room" \notin DOMAIN store
        THEN none
        ELSE IF store.cached_room.kind # "json"
        THEN [none EXCEPT !.ok = FALSE]
        ELSE LET layout_data == store.cached_room
                 room_data == Get(layout_data, "room", << >>)
                 width_m == Get(room_data, "width_m", none.room_width_m)
                 depth_m == Get(room_data, "depth_m", none.room_depth_m)
                 show_border == Get(room_data, "show_border", TRUE)
                 loaded == LoadedFurniture(Get(layout_data, "furniture", << >>),
                                           base.pixels_per_m, FALSE, width_m,
                                           depth_m, ClearedLayout)
             IN  [crash |-> show_border # base.show_room_border,
                  ok |-> loaded.ok,
                  room_name |-> Get(room_data, "name", none.room_name),
                  room_width_m |-> width_m,
                  room_depth_m |-> depth_m,
                  current_floor_texture |-> Get(room_data, "floor_texture", "None"),
                  show_room_border |-> show_border,
                  furniture_items |-> loaded.items,
                  list_widget |-> loaded.list]

\* RoomPlanner.closeEvent: _save_settings, then the window closes
closeEvent ==
    /\ Idle
    /\ settings' = SavedSettings
    /\ closed' = TRUE
    /\ message' = NoMessage
    /\ UNCHANGED << pixels_per_m, roomVars, snap_to_borders, furniture_items,
                    door_items, list_widget, counterVars, clipboard_furniture,
                    dialog, file, crashed, room_form, conversion >>

\* SettingsDialog.apply_settings (Apply, OK): _set_canvas_scale with the
\* slider's value, which is the current scale, then _save_settings
apply_settings ==
    /\ Idle
    /\ furniture_items' = RescaledFurniture(furniture_items, pixels_per_m,
                                            snap_to_borders, room_width_m,
                                            room_depth_m)
    /\ list_widget' = SharedData(list_widget, furniture_items')
    /\ room_rect' = RoomRect(room_width_m, room_depth_m, pixels_per_m)
    /\ settings' = [SavedSettings EXCEPT
                       !.cached_room = LayoutData(room_name, room_width_m,
                                                  room_depth_m, current_floor_texture,
                                                  show_room_border, furniture_items')]
    /\ message' = NoMessage
    /\ UNCHANGED << pixels_per_m, room_name, room_width_m, room_depth_m,
                    current_floor_texture, show_room_border, snap_to_borders,
                    door_items, counterVars, clipboard_furniture, dialog, file,
                    crashed, closed, room_form, conversion >>

\* The application is started again with store as its QSettings: __init__,
\* _load_settings, _load_cached_room
startup(store) ==
    /\ closed \/ crashed
    /\ LET base == LoadedSettings(store)
           new == LoadedCachedRoom(store, base)
       IN  /\ crashed' = (base.crash \/ new.crash)
           /\ pixels_per_m' = base.pixels_per_m
           /\ IF base.crash \/ new.crash
              THEN /\ room_name' = "My Room"
                   /\ room_width_m' = to_m(R(16), "ft")
                   /\ room_depth_m' = to_m(R(12), "ft")
                   /\ current_floor_texture' = "None"
                   /\ show_room_border' = TRUE
                   /\ furniture_items' = << >>
                   /\ list_widget' = << >>
              ELSE /\ room_name' = new.room_name
                   /\ room_width_m' = new.room_width_m
                   /\ room_depth_m' = new.room_depth_m
                   /\ current_floor_texture' = new.current_floor_texture
                   /\ show_room_border' = new.show_room_border
                   /\ furniture_items' = new.furniture_items
                   /\ list_widget' = new.list_widget
           /\ room_rect' = RoomRect(room_width_m', room_depth_m', pixels_per_m')
           /\ room_form' =
                  [InitialForm EXCEPT
                      !.w_spin = setValue(from_m(room_width_m', "ft")),
                      !.d_spin = setValue(from_m(room_depth_m', "ft"))]
    /\ snap_to_borders' = FALSE
    /\ door_items' = << >>
    /\ door_counter' = 1
    /\ window_counter' = 1
    /\ used_numbers' = [door |-> {}, window |-> {}]
    /\ clipboard_furniture' = NoClipboard
    /\ dialog' = NoDialog
    /\ message' = NoMessage
    /\ closed' = FALSE
    /\ settings' = store
    /\ UNCHANGED << file, conversion >>

\* Cache blobs that _cache_current_room did not write
ForeignCaches ==
    { Unparsable,
      [kind |-> "json",
       room |-> [name |-> "Den", width_m |-> R(3), depth_m |-> R(2)],
       furniture |-> << [name |-> "Desk", width_m |-> R(1), depth_m |-> Rat(1, 2),
                         colour |-> "#ff0000", x_m |-> R(1), y_m |-> R(1),
                         rotation |-> 90],
                        [name |-> "Chair"] >>] }

NextCache ==
    \/ /\ Len(furniture_items) < MaxScaled
       /\ on_add_furniture("Sofa", R(72), "in", R(36), "in", QColor("#4a90e2"))
    \/ \E i \in 1..MaxScaled, t \in DragTargets : move_furniture(i, t)
    \/ /\ Len(door_items) < MaxScaled
       /\ add_door_open
    \/ add_door_accept(dialog.name_input, R(1), Rat(1, 10))
    \/ dialog_cancel
    \/ toggle_snap_to_borders
    \/ border_checkbox_clicked
    \/ on_floor_changed("Carpet")
    \/ apply_settings
    \/ closeEvent
    \/ startup(settings)
    \/ \E c \in ForeignCaches : startup(StoreWith(settings, c))

SpecCache == Init /\ [][NextCache]_vars

\* The stores the application may find at startup: the one it wrote, or that
\* one with a foreign cache blob
StartupStores == {settings} \cup {StoreWith(settings, c) : c \in ForeignCaches}

\* C17: when restoring the autosave cache fails (unparsable blob, a furniture
\* entry with a missing key), no error is shown and the resulting layout (room
\* fields and furniture list) is the one a startup without cache gives.
C17_FailedRestoreIsNoCache ==
    [][\A store \in StartupStores :
          LET base == LoadedSettings(store)
              none == LoadedCachedRoom(StoreWithoutCache(store), base)
          IN  (/\ startup(store)
               /\ ~LoadedCachedRoom(store, base).ok
               /\ ~crashed') =>
                  /\ message' = NoMessage
                  /\ room_name' = none.room_name
                  /\ room_width_m' = none.room_width_m
                  /\ room_depth_m' = none.room_depth_m
                  /\ current_floor_texture' = none.current_floor_texture
                  /\ show_room_border' = none.show_room_border
                  /\ furniture_items' = none.furniture_items
                  /\ list_widget' = none.list_widget]_vars

\* The openings of the layout: the DoorWindow data of the tracked door items
Openings(doors) == [j \in DOMAIN doors |-> doors[j].door_window]

\* C18: every settings-save event (settings Apply/OK, window close) overwrites
\* the cache with the current room and furniture, and the startup that follows
\* a close restores the room, the furniture and the openings the layout had.
C18_CacheHoldsWholeLayout ==
    [][/\ (closeEvent \/ apply_settings) =>
              /\ "cached_room" \in DOMAIN settings'
              /\ settings'.cached_room.room =
                     [name |-> room_name', width_m |-> room_width_m',
                      depth_m |-> room_depth_m',
                      floor_texture |-> current_floor_texture',
                      show_border |-> show_room_border']
              /\ settings'.cached_room.furniture =
                     [i \in DOMAIN furniture_items' |->
                         FurnitureEntry(furniture_items'[i].furn)]
       /\ (closed /\ ~crashed /\ startup(settings)) =>
              /\ ~crashed'
              /\ room_name' = room_name
              /\ room_width_m' = room_width_m
              /\ room_depth_m' = room_depth_m
              /\ current_floor_texture' = current_floor_texture
              /\ show_room_border' = show_room_border
              /\ ModelValues(furniture_items') = ModelValues(furniture_items)
              /\ Openings(door_items') = Openings(door_items)]_vars


-----------------------------------------------------------------------------
(* What a document holds of the doors *)

NextDoors ==
    \/ /\ Len(furniture_items) < MaxScaled
       /\ on_add_furniture("Sofa", R(72), "in", R(36), "in", QColor("#4a90e2"))
    \/ \E i \in 1..MaxScaled, t \in DragTargets : move_furniture(i, t)
    \/ /\ Len(door_items) < MaxScaled
       /\ add_door_open
    \/ add_door_accept(dialog.name_input, R(1), Rat(1, 10))
    \/ dialog_cancel
    \/ \E j \in 1..MaxDoors : toggle_door(j)
    \/ toggle_snap_to_borders
    \/ \E o \in {"cancel", "written", "error"} : save_layout(o)
    \/ \E f \in {file, Unparsable} : load_layout(f)
    \/ closeEvent
    \/ startup(settings)

SpecDoors == Init /\ [][NextDoors]_vars

\* C19: save_layout, whether the write succeeds, fails or the file dialog is
\* cancelled, leaves the in-memory layout as it was: room fields, furniture
\* list and every piece's fields, openings, scale, snap flag, name counters.
C19_SaveKeepsLayout ==
    [][\A o \in {"cancel", "written", "error"} :
          save_layout(o) =>
              /\ Layout' = Layout
              /\ pixels_per_m' = pixels_per_m
              /\ snap_to_borders' = snap_to_borders]_vars

\* C19 witness: a layout with a piece outside the room, an open door and the
\* snap flag on was written to the file
C19_Witness ==
    /\ message = MsgSaved
    /\ snap_to_borders
    /\ file.kind = "json"
    /\ Len(file.furniture) = 1
    /\ Len(furniture_items) = 1
    /\ furniture_items[1].pos = Point(R(-60), R(600))
    /\ \E j \in DOMAIN door_items : door_items[j].is_open

\* The keys and furniture entries of a document written for the layout: room
\* and furniture only, one entry of seven keys per tracked furniture piece
HoldsFurnitureOnly(layout_data) ==
    /\ DOMAIN layout_data = {"kind", "room", "furniture"}
    /\ DOMAIN layout_data.room =
           {"name", "width_m", "depth_m", "floor_texture", "show_border"}
    /\ \A k \in DOMAIN layout_data.furniture :
           DOMAIN layout_data.furniture[k] =
               {"name", "width_m", "depth_m", "colour", "x_m", "y_m", "rotation"}

\* C20: the saved document and the cache blob hold no opening and no door
\* open/closed state, and after a load that read a document or a cache restore
\* no door of the layout is open, even if doors were open when the document
\* was saved.
C20_DoorStateNotPersisted ==
    /\ [](/\ HoldsFurnitureOnly(CurrentLayoutData)
          /\ Len(CurrentLayoutData.furniture) = Len(furniture_items)
          /\ HoldsFurnitureOnly(CachedRoom)
          /\ Len(CachedRoom.furniture) = Len(furniture_items)
          /\ file.kind = "json" => HoldsFurnitureOnly(file)
          /\ "cached_room" \in DOMAIN settings =>
                 HoldsFurnitureOnly(settings.cached_room))
    /\ [][((load_layout(file) /\ file.kind = "json") \/ startup(settings)) =>
             \A j \in DOMAIN door_items' : ~door_items'[j].is_open]_vars

\* C20 witness: a document was loaded over a layout, no door is left, and the
\* loaded piece is the one of the file
C20_Witness ==
    /\ message = MsgLoaded
    /\ door_items = << >>
    /\ door_counter = 1
    /\ Len(furniture_items) = 1
    /\ file.kind = "json"
    /\ Len(file.furniture) = 1

-----------------------------------------------------------------------------
(* Persistence: documents that leave optional fields out *)

\* Layout files that omit optional fields: an empty document, a room without
\* name, floor texture and border flag beside a piece without rotation, and a
\* named, carpeted room without border flag and without furniture array
PartialFiles ==
    { [kind |-> "json"],
      [kind |-> "json",
       room |-> [width_m |-> R(3), depth_m |-> R(2)],
       furniture |-> << [name |-> "Desk", width_m |-> R(1), depth_m |-> Rat(1, 2),
                         colour |-> "#ff0000", x_m |-> R(1), y_m |-> R(1)] >>],
      [kind |-> "json",
       room |-> [name |-> "Den", width_m |-> R(3), depth_m |-> R(2),
                 floor_texture |-> "Carpet"]] }

NextDefaults ==
    \/ /\ Len(furniture_items) < MaxScaled
       /\ on_add_furniture("Sofa", R(72), "in", R(36), "in", QColor("#4a90e2"))
    \/ \E i \in 1..MaxScaled, t \in DragTargets : move_furniture(i, t)
    \/ \E i \in 1..MaxScaled : rotate_90(i)
    \/ \E t \in {"My Room", "Den"} : on_room_name_changed(t)
    \/ \E t \in {"None", "Carpet"} : on_floor_changed(t)
    \/ border_checkbox_clicked
    \/ toggle_snap_to_borders
    \/ \E f \in PartialFiles : load_layout(f)

SpecDefaults == Init /\ [][NextDefaults]_vars

\* C21: load_layout accepts a document with missing optional fields and
\* substitutes the defaults: a missing room name becomes "My Room", a missing
\* floor texture "None", a missing border flag shown (TRUE), a missing furniture
\* rotation 0, a missing furniture array no furniture; the load reports success.
C21_MissingFieldsDefault ==
    [][\A f \in PartialFiles :
          load_layout(f) =>
              LET room_data == IF "room" \in DOMAIN f THEN f.room ELSE << >>
                  entries == IF "furniture" \in DOMAIN f THEN f.furniture ELSE << >>
              IN  /\ ~crashed'
                  /\ message' = MsgLoaded
                  /\ "name" \notin DOMAIN room_data => room_name' = "My Room"
                  /\ "floor_texture" \notin DOMAIN room_data =>
                         current_floor_texture' = "None"
                  /\ "show_border" \notin DOMAIN room_data =>
                         show_room_border' = TRUE
                  /\ Len(furniture_items') = Len(entries)
                  /\ \A k \in DOMAIN entries :
                         "rotation" \notin DOMAIN entries[k] =>
                             furniture_items'[k].furn.rotation = 0]_vars

-----------------------------------------------------------------------------
(* Canvas scale: the room *)

\* C22: a rescale leaves room_width_m and room_depth_m unchanged and sets the
\* room's display rectangle to room_width_m * newScale by room_depth_m * newScale
\* (the rectangle's origin is always (0, 0)).
C22_RescaleRedrawsRoom ==
    [][\A s \in Scales :
          set_canvas_scale(s) =>
              /\ room_width_m' = room_width_m
              /\ room_depth_m' = room_depth_m
              /\ room_rect'.w = RMul(room_width_m, R(s))
              /\ room_rect'.h = RMul(room_depth_m, R(s))]_vars

\* C22 witness: the canvas of the 16 ft x 12 ft room was rescaled from 60 to 30
\* and the rectangle is 4.8768 * 30 by 3.6576 * 30 pixels
C22_Witness ==
    /\ pixels_per_m = 30
    /\ room_width_m = to_m(R(16), "ft")
    /\ room_depth_m = to_m(R(12), "ft")
    /\ room_rect = Size(Rat(146304, 1000), Rat(109728, 1000))

-----------------------------------------------------------------------------
(* Unit conversion: the functions called on their own *)

\* Everything but the record of the last conversion
windowVars ==
    << pixels_per_m, roomVars, snap_to_borders, furniture_items, door_items,
       list_widget, counterVars, clipboard_furniture, dialog, file, message,
       crashed, closed, settings, room_form >>

\* to_m(value, unit) is called; the outcome is its return value or its exception
call_to_m(value, unit) ==
    /\ conversion' = [fn |-> "to_m", value |-> value, unit |-> unit,
                      result |-> to_m_float(value, unit)]
    /\ UNCHANGED windowVars

\* from_m(value_m, unit) is called
call_from_m(value_m, unit) ==
    /\ conversion' = [fn |-> "from_m", value |-> value_m, unit |-> unit,
                      result |-> from_m_float(value_m, unit)]
    /\ UNCHANGED windowVars

\* format_dimension(value_m, unit) is called
call_format_dimension(value_m, unit) ==
    /\ conversion' = [fn |-> "format_dimension", value |-> value_m, unit |-> unit,
                      result |-> format_dimension(value_m, unit)]
    /\ UNCHANGED windowVars

\* Values the functions are called with: numbers a dimension field can hold
FloatInputs == {Float(k, 100) : k \in {100, 250, 300, 700, 1200, 1257, 1600, 7200}}

\* Unit tokens: the supported ones and an unsupported one
UnitTokens == Units \cup {"cm"}

\* Calls with fresh arguments, and calls that convert back the value the last
\* call returned
NextUnits ==
    \/ \E v \in FloatInputs, u \in UnitTokens : call_to_m(v, u)
    \/ \E v \in FloatInputs, u \in UnitTokens : call_from_m(v, u)
    \/ \E v \in FloatInputs, u \in UnitTokens : call_format_dimension(v, u)
    \/ /\ conversion.fn = "from_m"
       /\ conversion.result # KeyError
       /\ call_to_m(conversion.result, conversion.unit)
    \/ /\ conversion.fn = "to_m"
       /\ conversion.result # KeyError
       /\ call_from_m(conversion.result, conversion.unit)

SpecUnits == Init /\ [][NextUnits]_vars

\* The last call returned v and this call converts v back with the same unit
ConvertsBack ==
    \/ /\ conversion.fn = "from_m"
       /\ conversion.unit \in Units
       /\ call_to_m(conversion.result, conversion.unit)
    \/ /\ conversion.fn = "to_m"
       /\ conversion.unit \in Units
       /\ call_from_m(conversion.result, conversion.unit)

\* C23: for every supported unit u and every value v, to_m(from_m(v, u), u)
\* equals v and from_m(to_m(v, u), u) equals v.
C23_RoundTripExact ==
    [][ConvertsBack => conversion'.result = conversion.value]_vars

\* C23, as the float arithmetic has it: to_m(from_m(v, u), u) and
\* from_m(to_m(v, u), u) are v or one of the two floats next to v, and are v
\* itself for the unit m.
C23_RoundTripWithinUlp ==
    [][ConvertsBack =>
          /\ conversion'.result \in {conversion.value} \cup Neighbours(conversion.value)
          /\ conversion.unit = "m" => conversion'.result = conversion.value]_vars

\* C23 witness: 1.0 was converted from metres to feet and back, and the result
\* is the float next below 1.0
C23_Witness ==
    /\ conversion.fn = "to_m"
    /\ conversion.unit = "ft"
    /\ conversion.value = from_m_float(Float(1, 1), "ft")
    /\ conversion.result # Float(1, 1)
    /\ conversion.result \in Neighbours(Float(1, 1))

\* C24: to_m, from_m and format_dimension fail with an error and return no value
\* when the unit token is not one of m, ft, in; for these three tokens they
\* never fail.
C24_UnknownUnitFails ==
    conversion.fn # "none" =>
        (conversion.result = KeyError <=> conversion.unit \notin {"m", "ft", "in"})

\* C24 witness: format_dimension was called with the unit token cm and raised
C24_Witness ==
    /\ conversion.fn = "format_dimension"
    /\ conversion.unit = "cm"
    /\ conversion.result = KeyError

-----------------------------------------------------------------------------
(* The default room and the default furniture piece *)

\* C25: the initial state has scale 60 and a room of 16 ft x 12 ft, which is
\* 4.8768 m x 3.6576 m; adding a piece of 72 in x 36 in at scale 60 creates an
\* item of display size 109.728 x 54.864 pixels (72 * 0.0254 * 60 by
\* 36 * 0.0254 * 60) at model position (0, 0).
C25_DefaultSizes ==
    /\ pixels_per_m = 60
    /\ room_width_m = Rat(48768, 10000)
    /\ room_depth_m = Rat(36576, 10000)
    /\ [][(/\ pixels_per_m = 60
           /\ \E n \in FurnitureNames, c \in Colours :
                  on_add_furniture(n, R(72), "in", R(36), "in", c)) =>
              LET item == furniture_items'[Len(furniture_items')]
              IN  /\ Len(furniture_items') = Len(furniture_items) + 1
                  /\ item.rect = Size(Rat(109728, 1000), Rat(54864, 1000))
                  /\ item.furn.x_m = Zero
                  /\ item.furn.y_m = Zero
                  /\ item.pos = Point(Zero, Zero)]_vars

\* C25 witness: the piece was added to the default room at scale 60 and is
\* 109.728 x 54.864 pixels at (0, 0)
C25_Witness ==
    /\ pixels_per_m = 60
    /\ room_width_m = Rat(48768, 10000)
    /\ room_depth_m = Rat(36576, 10000)
    /\ Len(furniture_items) = 1
    /\ furniture_items[1].rect = Size(Rat(109728, 1000), Rat(54864, 1000))
    /\ furniture_items[1].furn.x_m = Zero
    /\ furniture_items[1].furn.y_m = Zero

-----------------------------------------------------------------------------
(* Snap to border as a property of the layout *)

\* C26: while snap-to-border is on, every furniture piece that fits the room
\* has its unrotated bounding box inside it in every reachable state:
\* 0 <= x <= W - w and 0 <= y <= H - h in display space, also right after the
\* flag is switched on, after Apply Room Size and after a rescale.
C26_SnapKeepsInside ==
    snap_to_borders =>
        \A i \in DOMAIN furniture_items :
            LET item == furniture_items[i]
                xmax == RSub(RoomWidthPx, item.rect.w)
                ymax == RSub(RoomHeightPx, item.rect.h)
            IN  (RLe(Zero, xmax) /\ RLe(Zero, ymax)) =>
                    /\ RLe(Zero, item.pos.x) /\ RLe(item.pos.x, xmax)
                    /\ RLe(Zero, item.pos.y) /\ RLe(item.pos.y, ymax)

-----------------------------------------------------------------------------
(* Pieces, openings and the item list *)

NextItems ==
    \/ on_add_furniture("Sofa", R(72), "in", R(36), "in", QColor("#4a90e2"))
    \/ \E i \in 1..MaxFurniture : remove_furniture_item(i)
    \/ \E i \in 1..MaxScaled : copy_furniture(i)
    \/ paste_furniture
    \/ \E i \in 1..MaxScaled : duplicate_selected_furniture(i)
    \/ /\ door_counter + window_counter < MaxCounter /\ add_door_open
    \/ add_door_accept(dialog.name_input, R(1), Rat(1, 10))
    \/ /\ door_counter + window_counter < MaxCounter /\ add_window_open
    \/ add_window_accept(dialog.name_input, Rat(15, 10), Rat(2, 10))
    \/ \E j \in 1..MaxDoors : door_delete_self(j)
    \/ new_room
    \/ \E f \in PartialFiles : Len(Get(f, "furniture", << >>)) > 0 /\ load_layout(f)

SpecItems == Init /\ [][NextItems]_vars

\* C27: deleting a furniture piece removes exactly that piece: its entry leaves
\* furniture_items, the list entry that refers to it is the one removed, also
\* when another piece has the same name or the same field values, and every
\* other piece and list entry stays in place and in order.
C27_DeleteRemovesThatPiece ==
    [][\A i \in DOMAIN furniture_items :
          remove_furniture_item(i) =>
              LET id == furniture_items[i].id
                  k == CHOOSE k \in DOMAIN list_widget :
                           list_widget[k].kind = "Furniture" /\ list_widget[k].ref = id
              IN  /\ furniture_items' = RemoveAt(furniture_items, i)
                  /\ list_widget' = RemoveAt(list_widget, k)]_vars

-----------------------------------------------------------------------------
(* Copy, paste and duplicate *)

NextPaste ==
    \/ /\ Len(furniture_items) < MaxScaled
       /\ on_add_furniture("Sofa", R(72), "in", R(36), "in", QColor("#4a90e2"))
    \/ \E i \in 1..MaxScaled : rotate_90(i)
    \/ \E i \in 1..MaxFurniture : copy_furniture(i)
    \/ paste_furniture
    \/ \E i \in 1..MaxScaled : duplicate_selected_furniture(i)
    \/ toggle_snap_to_borders
    \/ on_room_apply(R(3), "m", R(2), "m")
    \/ new_room

SpecPaste == Init /\ [][NextPaste]_vars

\* The step appends one piece to furniture_items, a copy of the given fields
\* named "<name> (Copy)" at the room centre, and leaves every other piece as
\* it was.
AddsCopyOf(name, width_m, depth_m, colour, rotation) ==
    /\ Len(furniture_items') = Len(furniture_items) + 1
    /\ SubSeq(furniture_items', 1, Len(furniture_items)) = furniture_items
    /\ furniture_items'[Len(furniture_items')].furn =
           Furniture(name \o " (Copy)", width_m, depth_m, colour,
                     RDiv(room_width_m, R(2)), RDiv(room_depth_m, R(2)), rotation)
    /\ UNCHANGED door_items

\* C28: paste with a non-empty clipboard, and duplicate of a selected piece,
\* add exactly one piece named "<copied name> (Copy)" with the copied width,
\* depth, colour and rotation at the model position (room_width_m / 2,
\* room_depth_m / 2) and change no existing piece; paste with an empty
\* clipboard changes nothing.
C28_PasteAddsOneCopy ==
    [][/\ (paste_furniture /\ clipboard_furniture.kind = "none") =>
              UNCHANGED << furniture_items, door_items, list_widget,
                           clipboard_furniture, roomVars >>
       /\ (paste_furniture /\ clipboard_furniture.kind # "none") =>
              AddsCopyOf(clipboard_furniture.name, clipboard_furniture.width_m,
                         clipboard_furniture.depth_m,
                         QColor(clipboard_furniture.colour),
                         clipboard_furniture.rotation)
       /\ \A i \in DOMAIN furniture_items :
              duplicate_selected_furniture(i) =>
                  LET furn == furniture_items[i].furn
                  IN  AddsCopyOf(furn.name, furn.width_m, furn.depth_m,
                                 furn.colour, furn.rotation)]_vars

\* A rotated copy sits at the room centre in model space while snapping held
\* its display position back at the wall.
C28_Witness ==
    /\ snap_to_borders
    /\ Len(furniture_items) = 2
    /\ furniture_items[2].furn.name = furniture_items[1].furn.name \o " (Copy)"
    /\ furniture_items[2].furn.rotation = furniture_items[1].furn.rotation
    /\ furniture_items[2].furn.rotation # 0
    /\ furniture_items[2].furn.x_m = RDiv(room_width_m, R(2))
    /\ furniture_items[2].furn.y_m = RDiv(room_depth_m, R(2))
    /\ furniture_items[2].pos.x # RMul(furniture_items[2].furn.x_m, R(pixels_per_m))

\* C30: after any sequence of add furniture, paste, delete furniture, add
\* door/window, delete door/window, new room and load, the item list has one
\* entry per tracked furniture piece and opening, and every list entry refers
\* to a piece or opening that is still tracked.
C30_ListMatchesItems ==
    /\ Len(list_widget) = Len(furniture_items) + Len(door_items)
    /\ \A k \in DOMAIN list_widget :
           IF list_widget[k].kind = "Furniture"
           THEN \E i \in DOMAIN furniture_items :
                    furniture_items[i].id = list_widget[k].ref
           ELSE \E j \in DOMAIN door_items :
                    door_items[j].id = list_widget[k].ref

-----------------------------------------------------------------------------
(* The room size form *)

\* Numbers typed into the room fields
TypedSizes == {R(16), R(3)}

NextForm ==
    \/ \E unit \in Units : room_w_unit_changed(unit)
    \/ \E unit \in Units : room_d_unit_changed(unit)
    \/ \E w_value \in TypedSizes : room_spin_edited(w_value, R(12))
    \/ room_apply_clicked

SpecForm == Init /\ [][NextForm]_vars

\* The two field contents denote the same length, up to the last of the two
\* decimals the field shows
SameLength(old_value, old_unit, new_value, new_unit) ==
    LET exact == from_m(to_m(old_value, old_unit), new_unit)
        below == (exact.n \div exact.d) * 100
                     + ((exact.n % exact.d) * 100) \div exact.d
    IN  new_value \in {Rat(below, 100), Rat(below + 1, 100)}

\* C29: picking another unit for a room dimension field never changes
\* room_width_m or room_depth_m, and the number shown in that field is
\* converted so that it denotes the same length as before: the width field
\* when the width unit changes, the depth field when the depth unit changes.
C29_UnitChangeKeepsLength ==
    [][\A unit \in Units :
          /\ room_w_unit_changed(unit) =>
                 /\ UNCHANGED << room_width_m, room_depth_m >>
                 /\ SameLength(room_form.w_spin, room_form.w_unit,
                               room_form'.w_spin, room_form'.w_unit)
          /\ room_d_unit_changed(unit) =>
                 /\ UNCHANGED << room_width_m, room_depth_m >>
                 /\ SameLength(room_form.d_spin, room_form.d_unit,
                               room_form'.d_spin, room_form'.d_unit)]_vars

====
